---- MODULE Spec2Model ----
(***************************************************************************)
(* A model of the DAP protocol bridge of debugpy-mcp-server.               *)
(*                                                                         *)
(*   DAPClient     (src/debugpy_mcp_server/dap_client.py): one socket, a   *)
(*                 background receive loop, a sequence counter and the     *)
(*                 pending_requests / responses correlator maps.           *)
(*   DebugpyClient (src/debugpy_mcp_server/debugpy_client.py): the session *)
(*                 registry with its own synchronous request path.         *)
(*                                                                         *)
(* Specification Spec is the DAPClient: caller threads inside              *)
(* _send_request, the thread that runs connect(), the receive loop         *)
(* threads and the adapter at the far end of the socket.  Every statement  *)
(* of the Python code that reads or writes shared state is one step, so    *)
(* that the interleavings the interpreter allows are the interleavings of  *)
(* the model.  In Spec the receive loop is modelled at the level of        *)
(* decoded frames: one recv step delivers one complete message.            *)
(*                                                                         *)
(* Specification SpecSession is the DebugpyClient registry (create,         *)
(* connect, disconnect) and SpecBreakpoints adds set_breakpoint and        *)
(* clear_breakpoint on one session.  SpecDisconnect is the DAPClient used  *)
(* from one thread, connect() then disconnect().  SpecDecode is the        *)
(* receive loop at the level of bytes, the adapter's frames arriving in    *)
(* reads of any sizes.  SpecEncode is the frame of one request as a        *)
(* function of its inputs, and SpecWrite is concurrent callers writing     *)
(* their frames to one socket.                                             *)
(*                                                                         *)
(* SpecCalls is every operation of the DebugpyClient on one session, and   *)
(* SpecEvaluate is evaluate_expression over the life of a session.         *)
(* SpecEvents is the DAPClient's event callbacks: on_event registrations   *)
(* and the receive loop dispatching the events it reads.  SpecRead is      *)
(* DebugpyClient._read_response reading one frame, byte by byte, from a    *)
(* peer that may close the connection at any point.                        *)
(*                                                                         *)
(* SpecReconnect is SpecDisconnect with connect() called again on the same *)
(* DAPClient, each call with a socket and a receive thread of its own.     *)
(* SpecIsolation is two sessions of one DebugpyClient, every operation     *)
(* called on the first while the second is created, connected,             *)
(* disconnected and given breakpoints beside it.                           *)
(***************************************************************************)
EXTENDS Integers, Sequences, FiniteSets, TLC

\* ------------------------------------------------------------------ bounds
\* Sequence numbers are issued while sequence_number <= MaxSeq.
MaxSeq == 3
\* The adapter puts at most MaxMsgs frames on the stream of the model.
MaxMsgs == 2

\* --------------------------------------------------------------- constants
\* Threads that call the request methods of one DAPClient concurrently.
Callers == {"c1"}
\* The thread that calls connect().
Main == "main"
Threads == Callers \cup {Main}
\* The commands of the request methods the callers use (lines 101-142).
PlainCommands == {"evaluate"}
Commands == PlainCommands \cup {"initialize", "configurationDone", "disconnect"}
\* Socket objects, one per connect() call; 0 stands for self.socket = None.
\* The receive thread a connect() call starts carries the id of its socket.
\* In Spec and SpecDisconnect connect() is called once on the client, so
\* that its socket is the first.
SockIds == {1, 2}
FirstSocket == {1}
Seqs == 1..MaxSeq

\* ---------------------------------------------------------------- messages
\* A decoded frame.  "success" is "true", "false" or "absent" (no such key).
\* None models Python's None.
None == [type |-> "none", request_seq |-> 0, success |-> "absent", event |-> ""]
SuccessValues == {"true", "false", "absent"}
EventNames == {"stopped"}
Response(s, ok) == [type |-> "response", request_seq |-> s, success |-> ok, event |-> ""]
Event(e) == [type |-> "event", request_seq |-> 0, success |-> "absent", event |-> e]
\* What the adapter may send as a frame: a response to any sequence number,
\* solicited or not, or an event.
AdapterFrames ==
    {Response(s, ok) : s \in Seqs, ok \in SuccessValues}
        \cup {Event(e) : e \in EventNames}

VARIABLES
    \* ---- DAPClient fields (dap_client.py:19-27)
    socket,            \* self.socket: 0 (None) or a socket id
    sequence_number,   \* self.sequence_number
    pending_requests,  \* keys of self.pending_requests
    event_set,         \* the keys whose threading.Event is set
    responses,         \* self.responses: seq -> message, None when absent
    is_connected,      \* self.is_connected
    receive_thread,    \* self.receive_thread: 0 (None) or a thread id
    \* ---- the sockets and the adapter
    sockState,         \* per socket: "unused", "open", "peer_closed", "failed",
                       \* "closed"
    wire,              \* the request frames written: <<sock, seq, command>>
    received,          \* the number of frames the receive loops have read
    \* ---- threads inside connect() / _send_request()
    pc,                \* per thread: its position in the code
    cmd,               \* per thread: the command of its _send_request call
    seq,               \* per thread: the local seq of its _send_request call
    ret,               \* per thread: the value _send_request returns
    outcome,           \* per thread: the path on which _send_request returned
    cret,              \* what connect() returned: "", "true", "false", "none"
    initResp,          \* connect(): the response of its initialize request
    \* ---- receive loop threads (one per connect() call)
    rpc,               \* per receive thread: its position in _receive_loop
    rsock,             \* per receive thread: the socket its recv blocks on
    rmsg,              \* per receive thread: the message being handled
    rend,              \* per receive thread: why the loop ended
    lostPending        \* the seqs of the calls in progress that were waiting,
                       \* not woken, when a receive loop ended on eof or error

dapVars == <<socket, sequence_number, pending_requests, event_set, responses,
             is_connected, receive_thread, sockState, wire, received, pc, cmd,
             seq, ret, outcome, cret, initResp, rpc, rsock, rmsg, rend,
             lostPending>>

VARIABLES
    \* ---- DebugpyClient fields (debugpy_client.py:24-29)
    sessions,                \* self.sessions: session id -> DebugSession
    connections,             \* self.connections: session id -> socket, 0 if none
    client_sequence_number,  \* self.sequence_number
    \* ---- the sockets connect_session has opened, and the last call
    breakpoints,             \* self.breakpoints: session id -> list of Breakpoint
    clientSockets,           \* per socket: "unused", "open", "failed", "closed"
    clientSocketOwner,       \* per socket: the session it was opened for
    clientWire,              \* the request frames written: <<sock, seq, command>>
    issued,                  \* per session: the breakpoint ids set_breakpoint
                             \* has assigned, in order
    setNotCleared,           \* per session: the breakpoints set_breakpoint has
                             \* returned whose id no later clear_breakpoint
                             \* call that returned True was given, in order
    lastCall                 \* the last DebugpyClient call: its name, its
                             \* arguments, what it returned, the response read

sessVars == <<sessions, connections, client_sequence_number, breakpoints,
              clientSockets, clientSocketOwner, clientWire, issued, setNotCleared,
              lastCall>>

VARIABLES
    \* ---- DAPClient.disconnect (dap_client.py:70-84)
    dcWasConnected           \* self.is_connected as the last disconnect() call
                             \* found it

VARIABLES
    \* ---- DAPClient._receive_loop at the level of bytes (dap_client.py:184-228)
    frames,            \* the frames the adapter sends on the connection
    stream,            \* their bytes that no recv has returned yet
    buffer,            \* the local `buffer`
    handled,           \* the messages passed to _handle_message, in order
    dpc,               \* the position in the loop: "off", "recv", "scan", "ended"
    dend,              \* why the loop ended: "", "eof", "error"
    cuts               \* where reads have ended so far: inside a "header",
                       \* a "terminator", a "body"

decVars == <<frames, stream, buffer, handled, dpc, dend, cuts>>

VARIABLES
    \* ---- the frame of one request (dap_client.py:164-168,
    \*      debugpy_client.py:340-345)
    encIn,             \* the request: client, seq, command, argument string
    encOut,            \* the bytes handed to send
    \* ---- concurrent writers of one DAPClient (dap_client.py:144-168)
    wrSeqNo,           \* self.sequence_number
    wpc,               \* per writer: "off", "idle", "send"
    wseq,              \* per writer: its local seq
    sockOut            \* the send calls on the socket so far, in order: the
                       \* content passed and the number n of bytes written

writerVars == <<wrSeqNo, wpc, wseq, sockOut>>
wrVars == <<encIn, encOut, writerVars>>

VARIABLES
    \* ---- DAPClient.on_event and the dispatch of events (dap_client.py:241-253)
    event_callbacks,   \* self.event_callbacks: event name -> callback, "none"
                       \* when the name is no key
    registrations,     \* the on_event calls so far: <<name, callback>>, in order
    invoked,           \* the callback calls so far: frame, callback, argument
    eventsRead,        \* the number of event frames passed to _handle_message
    emsg,              \* the event frame _handle_message is handling
    epc                \* the receive loop: "off", "loop", "check", "call",
                       \* "ended"

evVars == <<event_callbacks, registrations, invoked, eventsRead, emsg, epc>>

VARIABLES
    \* ---- DebugpyClient._read_response and _read_line (debugpy_client.py:355-389)
    rdSent,            \* the bytes the peer sends in answer to the request
    rdPeer,            \* what the peer does after them: "open" (it sends
                       \* nothing more), "closed" (it closes the connection)
    rdStream,          \* the bytes of rdSent that no recv has returned yet
    rdpc,              \* the position: "off", "rl_recv", "rl_test", "rr_line",
                       \* "rr_content", "returned"
    rdChar,            \* the local `char` of _read_line
    rdLine,            \* the local `line` of _read_line
    rdLength,          \* headers.get("Content-Length"): whether the key is
                       \* known, and its text
    rdRet              \* what _read_response returned: "", "none", "object",
                       \* "other"

rdVars == <<rdSent, rdPeer, rdStream, rdpc, rdChar, rdLine, rdLength, rdRet>>

\* The variables of the parts added last.
restVars == <<evVars, rdVars>>

\* What the steps of connect(), _send_request() and the receive loop leave
\* alone, and what the calls of the DebugpyClient leave alone.
nonDAP == <<sessVars, dcWasConnected, decVars, wrVars, restVars>>
nonSess == <<dapVars, dcWasConnected, decVars, wrVars, restVars>>

vars == <<dapVars, sessVars, dcWasConnected, decVars, wrVars, restVars>>

\* ------------------------------------------------------------ DAPClient
\* dap_client.py:19-27, before any connect() call.
DAPInit ==
    /\ socket = 0
    /\ sequence_number = 1
    /\ pending_requests = {}
    /\ event_set = {}
    /\ responses = [s \in Seqs |-> None]
    /\ is_connected = FALSE
    /\ receive_thread = 0
    /\ sockState = [g \in SockIds |-> "unused"]
    /\ wire = {}
    /\ received = 0
    /\ pc = [t \in Threads |-> "idle"]
    /\ cmd = [t \in Threads |-> ""]
    /\ seq = [t \in Threads |-> 0]
    /\ ret = [t \in Threads |-> None]
    /\ outcome = [t \in Threads |-> ""]
    /\ cret = ""
    /\ initResp = None
    /\ rpc = [g \in SockIds |-> "unstarted"]
    /\ rsock = [g \in SockIds |-> 0]
    /\ rmsg = [g \in SockIds |-> None]
    /\ rend = [g \in SockIds |-> ""]
    /\ lostPending = {}
    /\ dcWasConnected = FALSE

\* ------------------------------------------------ DAPClient._send_request
clientState == <<socket, is_connected, receive_thread>>
correlator == <<sequence_number, pending_requests, event_set, responses>>
rxVars == <<rpc, rsock, rmsg, rend, lostPending>>
connectVars == <<cret, initResp>>

\* The sequence numbers the model still has to give out.
SeqsLeft == MaxSeq + 1 - sequence_number

\* dap_client.py:144-147: entry of _send_request(command, arguments) by
\* thread t, with the early return when the client is not connected.
SendRequestEnter(t, c) ==
    /\ \/ t \in Callers /\ pc[t] = "idle" /\ c \in PlainCommands
       \/ t = Main /\ pc[t] = "cn_init" /\ c = "initialize"
       \/ t = Main /\ pc[t] = "cn_cfg" /\ c = "configurationDone"
       \/ t = Main /\ pc[t] = "dc_send" /\ c = "disconnect"
    /\ Cardinality({u \in Threads : pc[u] = "sr_alloc"}) < SeqsLeft
    /\ cmd' = [cmd EXCEPT ![t] = c]
    /\ IF ~is_connected \/ socket = 0
         THEN /\ pc' = [pc EXCEPT ![t] = "sr_ret"]
              /\ ret' = [ret EXCEPT ![t] = None]
              /\ outcome' = [outcome EXCEPT ![t] = "notconnected"]
         ELSE /\ pc' = [pc EXCEPT ![t] = "sr_alloc"]
              /\ ret' = [ret EXCEPT ![t] = None]
              /\ outcome' = [outcome EXCEPT ![t] = ""]
    /\ seq' = [seq EXCEPT ![t] = 0]
    /\ UNCHANGED nonDAP
    /\ UNCHANGED <<clientState, correlator, sockState, wire, received,
                   connectVars, rxVars>>

\* A lost update of the counter: the increment is not applied.
NextSequenceNumberLost(n) == n

\* dap_client.py:151: self.sequence_number += 1.
NextSequenceNumber(n) == n + 1

\* dap_client.py:149-151: under self.lock, seq = self.sequence_number and the
\* increment, as one step.
AllocSeq(t) ==
    /\ pc[t] = "sr_alloc"
    /\ sequence_number <= MaxSeq
    /\ seq' = [seq EXCEPT ![t] = sequence_number]
    /\ sequence_number' = NextSequenceNumber(sequence_number)
    /\ pc' = [pc EXCEPT ![t] = "sr_register"]
    /\ UNCHANGED nonDAP
    /\ UNCHANGED <<clientState, pending_requests, event_set, responses,
                   sockState, wire, received, cmd, ret, outcome, connectVars,
                   rxVars>>

\* dap_client.py:161-162: a fresh, unset Event is stored under seq.
RegisterWaiter(t) ==
    /\ pc[t] = "sr_register"
    /\ pending_requests' = pending_requests \cup {seq[t]}
    /\ event_set' = event_set \ {seq[t]}
    /\ pc' = [pc EXCEPT ![t] = "sr_send"]
    /\ UNCHANGED nonDAP
    /\ UNCHANGED <<clientState, sequence_number, responses, sockState, wire,
                   received, cmd, seq, ret, outcome, connectVars, rxVars>>

\* Whether socket.send can write on the socket self.socket names, and whether
\* it can raise there (a None socket, a socket that never connected, a peer
\* that has closed: the write may still be buffered, or fail).
SendCanWrite == socket # 0 /\ sockState[socket] \in {"open", "peer_closed"}
SendCanRaise == socket = 0 \/ sockState[socket] \in {"peer_closed", "failed", "closed"}

\* dap_client.py:164-168: the frame of the request is written to the socket.
SendFrame(t) ==
    /\ pc[t] = "sr_send"
    /\ SendCanWrite
    /\ wire' = wire \cup {<<socket, seq[t], cmd[t]>>}
    /\ pc' = [pc EXCEPT ![t] = "sr_wait"]
    /\ UNCHANGED nonDAP
    /\ UNCHANGED <<clientState, correlator, sockState, received, cmd, seq,
                   ret, outcome, connectVars, rxVars>>

\* dap_client.py:168, 178-180: send raises; the except branch returns None.
SendRaises(t) ==
    /\ pc[t] = "sr_send"
    /\ SendCanRaise
    /\ ret' = [ret EXCEPT ![t] = None]
    /\ outcome' = [outcome EXCEPT ![t] = "error"]
    /\ pc' = [pc EXCEPT ![t] = "sr_finally"]
    /\ UNCHANGED nonDAP
    /\ UNCHANGED <<clientState, correlator, sockState, wire, received, cmd,
                   seq, connectVars, rxVars>>

\* dap_client.py:171: event.wait(timeout=10) returns True.
WaitWoken(t) ==
    /\ pc[t] = "sr_wait"
    /\ seq[t] \in event_set
    /\ pc' = [pc EXCEPT ![t] = "sr_pop"]
    /\ UNCHANGED nonDAP
    /\ UNCHANGED <<clientState, correlator, sockState, wire, received, cmd,
                   seq, ret, outcome, connectVars, rxVars>>

\* dap_client.py:171, 174-176: event.wait(timeout=10) returns False.
WaitTimeout(t) ==
    /\ pc[t] = "sr_wait"
    /\ seq[t] \notin event_set
    /\ ret' = [ret EXCEPT ![t] = None]
    /\ outcome' = [outcome EXCEPT ![t] = "timeout"]
    /\ pc' = [pc EXCEPT ![t] = "sr_finally"]
    /\ UNCHANGED nonDAP
    /\ UNCHANGED <<clientState, correlator, sockState, wire, received, cmd,
                   seq, connectVars, rxVars>>

\* dap_client.py:172-173: response = self.responses.pop(seq, None).
PopResponse(t) ==
    /\ pc[t] = "sr_pop"
    /\ ret' = [ret EXCEPT ![t] = responses[seq[t]]]
    /\ responses' = [responses EXCEPT ![seq[t]] = None]
    /\ outcome' = [outcome EXCEPT ![t] = "response"]
    /\ pc' = [pc EXCEPT ![t] = "sr_finally"]
    /\ UNCHANGED nonDAP
    /\ UNCHANGED <<clientState, sequence_number, pending_requests, event_set,
                   sockState, wire, received, cmd, seq, connectVars, rxVars>>

\* dap_client.py:181-182: finally: self.pending_requests.pop(seq, None).
RemoveWaiter(t) ==
    /\ pc[t] = "sr_finally"
    /\ pending_requests' = pending_requests \ {seq[t]}
    /\ event_set' = event_set \ {seq[t]}
    /\ pc' = [pc EXCEPT ![t] = "sr_ret"]
    /\ UNCHANGED nonDAP
    /\ UNCHANGED <<clientState, sequence_number, responses, sockState, wire,
                   received, cmd, seq, ret, outcome, connectVars, rxVars>>

\* The request method of a caller (dap_client.py:101-142) returns what
\* _send_request returned; the thread is free for its next call.
CallerReturn(t) ==
    /\ t \in Callers
    /\ pc[t] = "sr_ret"
    /\ pc' = [pc EXCEPT ![t] = "idle"]
    /\ cmd' = [cmd EXCEPT ![t] = ""]
    /\ seq' = [seq EXCEPT ![t] = 0]
    /\ ret' = [ret EXCEPT ![t] = None]
    /\ outcome' = [outcome EXCEPT ![t] = ""]
    /\ lostPending' = lostPending \ {seq[t]}
    /\ UNCHANGED nonDAP
    /\ UNCHANGED <<clientState, correlator, sockState, wire, received,
                   connectVars, rpc, rsock, rmsg, rend>>

\* ------------------------------------------------- DAPClient._receive_loop
sendVars == <<pc, cmd, seq, ret, outcome>>

\* The sequence numbers of the calls blocked in event.wait, their Event not
\* set.
Unwoken == {seq[t] : t \in {u \in Threads : pc[u] = "sr_wait"}} \ event_set

\* dap_client.py:188-190: the loop condition, and the call of recv on the
\* socket self.socket names at that moment.
RxLoop(g) ==
    /\ rpc[g] = "loop"
    /\ IF is_connected /\ socket # 0
         THEN /\ rpc' = [rpc EXCEPT ![g] = "recv"]
              /\ rsock' = [rsock EXCEPT ![g] = socket]
              /\ rend' = rend
         ELSE /\ rpc' = [rpc EXCEPT ![g] = "ended"]
              /\ rsock' = [rsock EXCEPT ![g] = 0]
              /\ rend' = [rend EXCEPT ![g] = "exit"]
    /\ UNCHANGED nonDAP
    /\ UNCHANGED <<clientState, correlator, sockState, wire, received,
                   sendVars, connectVars, rmsg, lostPending>>

\* dap_client.py:190-218: recv returns the bytes of one frame, which is
\* decoded and handed to _handle_message.
RxRecvFrame(g) ==
    /\ rpc[g] = "recv"
    /\ sockState[rsock[g]] = "open"
    /\ received < MaxMsgs
    /\ received' = received + 1
    /\ \E m \in AdapterFrames : rmsg' = [rmsg EXCEPT ![g] = m]
    /\ rpc' = [rpc EXCEPT ![g] = "handle"]
    /\ UNCHANGED nonDAP
    /\ UNCHANGED <<clientState, correlator, sockState, wire, sendVars,
                   connectVars, rsock, rend, lostPending>>

\* dap_client.py:190-192: recv returns b"": the peer closed; break.
RxRecvEof(g) ==
    /\ rpc[g] = "recv"
    /\ sockState[rsock[g]] \in {"open", "peer_closed"}
    /\ sockState' = [sockState EXCEPT ![rsock[g]] = "peer_closed"]
    /\ rpc' = [rpc EXCEPT ![g] = "ended"]
    /\ rend' = [rend EXCEPT ![g] = "eof"]
    /\ lostPending' = lostPending \cup Unwoken
    /\ UNCHANGED nonDAP
    /\ UNCHANGED <<clientState, correlator, wire, received, sendVars,
                   connectVars, rsock, rmsg>>

\* dap_client.py:190, 225-228: recv raises (a read error, the socket's read
\* timeout, a socket closed under the loop); break.
RxRecvError(g) ==
    /\ rpc[g] = "recv"
    /\ rpc' = [rpc EXCEPT ![g] = "ended"]
    /\ rend' = [rend EXCEPT ![g] = "error"]
    /\ lostPending' = lostPending \cup Unwoken
    /\ UNCHANGED nonDAP
    /\ UNCHANGED <<clientState, correlator, sockState, wire, received,
                   sendVars, connectVars, rsock, rmsg>>

\* dap_client.py:237: whether _handle_message takes a response for a waiter.
HasWaiter(s) == s \in pending_requests

\* dap_client.py:230-237, 241-249: _handle_message up to its first read of
\* shared state.  A response with no waiter is dropped; an event has no
\* effect on the correlator.
RxHandle(g) ==
    /\ rpc[g] = "handle"
    /\ IF rmsg[g].type = "response" /\ HasWaiter(rmsg[g].request_seq)
         THEN /\ rpc' = [rpc EXCEPT ![g] = "store"]
              /\ rmsg' = rmsg
         ELSE /\ rpc' = [rpc EXCEPT ![g] = "loop"]
              /\ rmsg' = [rmsg EXCEPT ![g] = None]
    /\ UNCHANGED nonDAP
    /\ UNCHANGED <<clientState, correlator, sockState, wire, received,
                   sendVars, connectVars, rsock, rend, lostPending>>

\* Matching in order of issue: the response goes to the oldest waiter.
ResponseKeyOldestWaiter(m) ==
    IF pending_requests = {} THEN m.request_seq
    ELSE CHOOSE s \in pending_requests : \A u \in pending_requests : s <= u

\* dap_client.py:238: the key under which a response is stored.
ResponseKey(m) == m.request_seq

\* dap_client.py:238: self.responses[seq] = message.
RxStore(g) ==
    /\ rpc[g] = "store"
    /\ responses' = [responses EXCEPT ![ResponseKey(rmsg[g])] = rmsg[g]]
    /\ rpc' = [rpc EXCEPT ![g] = "set"]
    /\ UNCHANGED nonDAP
    /\ UNCHANGED <<clientState, sequence_number, pending_requests, event_set,
                   sockState, wire, received, sendVars, connectVars, rsock,
                   rmsg, rend, lostPending>>

\* dap_client.py:239: self.pending_requests[seq].set(); the lookup raises
\* KeyError when the waiter was removed since line 237, which the handler at
\* line 225 catches, ending the loop.
RxSet(g) ==
    /\ rpc[g] = "set"
    /\ IF rmsg[g].request_seq \in pending_requests
         THEN /\ event_set' = event_set \cup {rmsg[g].request_seq}
              /\ rpc' = [rpc EXCEPT ![g] = "loop"]
              /\ rend' = rend
         ELSE /\ event_set' = event_set
              /\ rpc' = [rpc EXCEPT ![g] = "ended"]
              /\ rend' = [rend EXCEPT ![g] = "keyerror"]
    /\ rmsg' = [rmsg EXCEPT ![g] = None]
    /\ UNCHANGED nonDAP
    /\ UNCHANGED <<clientState, sequence_number, pending_requests, responses,
                   sockState, wire, received, sendVars, connectVars, rsock,
                   lostPending>>

\* ------------------------------------------------------ DAPClient.connect
\* The sockets connect() has created so far, and the next one.
Created == {g \in SockIds : sockState[g] # "unused"}
NewSocket == CHOOSE g \in SockIds \ Created : \A h \in SockIds \ Created : g <= h
\* The socket of the connect() call in progress.
LastSocket == CHOOSE g \in Created : \A h \in Created : h <= g

\* dap_client.py:32-34: the socket g is created, stored in self.socket and
\* connected.
ConnectSocket(g) ==
    /\ pc[Main] = "idle"
    /\ Created # SockIds
    /\ g = NewSocket
    /\ socket' = g
    /\ sockState' = [sockState EXCEPT ![g] = "open"]
    /\ pc' = [pc EXCEPT ![Main] = "cn_flag"]
    /\ cret' = ""
    /\ initResp' = None
    /\ UNCHANGED nonDAP
    /\ UNCHANGED <<is_connected, receive_thread, correlator, wire, received,
                   cmd, seq, ret, outcome, rxVars>>

\* dap_client.py:32-34, 65-68: socket.connect raises; the except branch sets
\* is_connected to False and returns False.
ConnectSocketFails(g) ==
    /\ pc[Main] = "idle"
    /\ Created # SockIds
    /\ g = NewSocket
    /\ socket' = g
    /\ sockState' = [sockState EXCEPT ![g] = "failed"]
    /\ is_connected' = FALSE
    /\ pc' = [pc EXCEPT ![Main] = "cn_ret"]
    /\ cret' = "false"
    /\ initResp' = None
    /\ UNCHANGED nonDAP
    /\ UNCHANGED <<receive_thread, correlator, wire, received, cmd, seq, ret,
                   outcome, rxVars>>

\* dap_client.py:36: self.is_connected = True.
ConnectFlag ==
    /\ pc[Main] = "cn_flag"
    /\ is_connected' = TRUE
    /\ pc' = [pc EXCEPT ![Main] = "cn_thread"]
    /\ UNCHANGED nonDAP
    /\ UNCHANGED <<socket, receive_thread, correlator, sockState, wire,
                   received, cmd, seq, ret, outcome, connectVars, rxVars>>

\* dap_client.py:39-40: the receive thread of this connect() call starts.
ConnectThread ==
    /\ pc[Main] = "cn_thread"
    /\ LET g == LastSocket IN
         /\ receive_thread' = g
         /\ rpc' = [rpc EXCEPT ![g] = "loop"]
    /\ pc' = [pc EXCEPT ![Main] = "cn_init"]
    /\ UNCHANGED nonDAP
    /\ UNCHANGED <<socket, is_connected, correlator, sockState, wire,
                   received, cmd, seq, ret, outcome, connectVars, rsock, rmsg,
                   rend, lostPending>>

\* The success field of the initialize response is not looked at.
InitializeAnswered(r) == r # None

\* dap_client.py:58: `response and response.get("success")`.
InitializeSucceeded(r) == r # None /\ r.success = "true"

\* dap_client.py:58-63: the branch on the initialize response; connect()
\* returns False when it is missing or not successful.
ConnectAfterInit ==
    /\ pc[Main] = "sr_ret"
    /\ cmd[Main] = "initialize"
    /\ initResp' = ret[Main]
    /\ IF InitializeSucceeded(ret[Main])
         THEN /\ pc' = [pc EXCEPT ![Main] = "cn_cfg"]
              /\ cret' = cret
         ELSE /\ pc' = [pc EXCEPT ![Main] = "cn_ret"]
              /\ cret' = "false"
    /\ UNCHANGED nonDAP
    /\ UNCHANGED <<clientState, correlator, sockState, wire, received, cmd,
                   seq, ret, outcome, rxVars>>

\* dap_client.py:61: `config_response and config_response.get("success", True)`.
ConfigResult(r) ==
    IF r = None THEN "none"
    ELSE IF r.success = "absent" THEN "true"
    ELSE r.success

\* dap_client.py:60-61: connect() returns on the configurationDone response.
ConnectAfterConfig ==
    /\ pc[Main] = "sr_ret"
    /\ cmd[Main] = "configurationDone"
    /\ cret' = ConfigResult(ret[Main])
    /\ pc' = [pc EXCEPT ![Main] = "cn_ret"]
    /\ UNCHANGED nonDAP
    /\ UNCHANGED <<clientState, correlator, sockState, wire, received, cmd,
                   seq, ret, outcome, initResp, rxVars>>

\* connect() has returned cret; the thread is free for its next call.
ConnectReturn ==
    /\ pc[Main] = "cn_ret"
    /\ pc' = [pc EXCEPT ![Main] = "idle"]
    /\ cmd' = [cmd EXCEPT ![Main] = ""]
    /\ seq' = [seq EXCEPT ![Main] = 0]
    /\ ret' = [ret EXCEPT ![Main] = None]
    /\ outcome' = [outcome EXCEPT ![Main] = ""]
    /\ UNCHANGED nonDAP
    /\ UNCHANGED <<clientState, correlator, sockState, wire, received,
                   connectVars, rxVars>>

\* --------------------------------------------------- DAPClient.disconnect
\* dap_client.py:70-72: disconnect() is entered and clears is_connected
\* before anything else.
DisconnectFlag ==
    /\ pc[Main] = "idle"
    /\ dcWasConnected' = is_connected
    /\ is_connected' = FALSE
    /\ pc' = [pc EXCEPT ![Main] = "dc_sock"]
    /\ UNCHANGED <<sessVars, decVars, wrVars, restVars>>
    /\ UNCHANGED <<socket, receive_thread, correlator, sockState, wire,
                   received, cmd, seq, ret, outcome, connectVars, rxVars>>

\* dap_client.py:75: `if self.socket:`.
DisconnectSocket ==
    /\ pc[Main] = "dc_sock"
    /\ pc' = [pc EXCEPT ![Main] = IF socket # 0 THEN "dc_send" ELSE "dc_join"]
    /\ UNCHANGED nonDAP
    /\ UNCHANGED <<clientState, correlator, sockState, wire, received, cmd,
                   seq, ret, outcome, connectVars, rxVars>>

\* dap_client.py:77-79: _send_request("disconnect", ...) has returned (its
\* value is not looked at); the socket is closed and self.socket set to None.
DisconnectClose ==
    /\ pc[Main] = "sr_ret"
    /\ cmd[Main] = "disconnect"
    /\ IF socket # 0
         THEN sockState' = [sockState EXCEPT ![socket] = "closed"]
         ELSE sockState' = sockState
    /\ socket' = 0
    /\ pc' = [pc EXCEPT ![Main] = "dc_join"]
    /\ UNCHANGED nonDAP
    /\ UNCHANGED <<is_connected, receive_thread, correlator, wire, received,
                   cmd, seq, ret, outcome, connectVars, rxVars>>

\* dap_client.py:83-84: the receive thread is joined for at most one second;
\* join returns whether or not the thread has ended.
DisconnectJoin ==
    /\ pc[Main] = "dc_join"
    /\ pc' = [pc EXCEPT ![Main] = "dc_ret"]
    /\ UNCHANGED nonDAP
    /\ UNCHANGED <<clientState, correlator, sockState, wire, received, cmd,
                   seq, ret, outcome, connectVars, rxVars>>

\* disconnect() has returned; the thread is free for its next call.
DisconnectReturn ==
    /\ pc[Main] = "dc_ret"
    /\ pc' = [pc EXCEPT ![Main] = "idle"]
    /\ cmd' = [cmd EXCEPT ![Main] = ""]
    /\ seq' = [seq EXCEPT ![Main] = 0]
    /\ ret' = [ret EXCEPT ![Main] = None]
    /\ outcome' = [outcome EXCEPT ![Main] = ""]
    /\ UNCHANGED nonDAP
    /\ UNCHANGED <<clientState, correlator, sockState, wire, received,
                   connectVars, rxVars>>

\* ---------------------------------------------------------- DebugpyClient
\* uuid.uuid4() values: the identifiers create_session can return, and one
\* that it never returns.
SessionIds == {"s1", "s2"}
UnknownId == "s0"
AnyId == SessionIds \cup {UnknownId}
\* connect_session opens at most MaxSockets sockets in a run of the model.
MaxSockets == 2
ClientSockIds == 1..MaxSockets
\* Requests are sent while self.sequence_number <= MaxClientSeq.
MaxClientSeq == 6
\* The hosts and ports create_session is called with; 5678 is the default
\* (debugpy_client.py:31).
Hosts == {"localhost"}
DefaultPort == 5678
Ports == {DefaultPort, 5679}
\* The session of the runs that set and clear breakpoints.
BpSessionIds == {"s1"}
\* The files and lines set_breakpoint is called with.
Files == {"a.py"}
Lines == {10, 20}

\* models.py:9-16: a DebugSession; NoSession stands for an absent key.
NoSession ==
    [exists |-> FALSE, session_id |-> "", host |-> "", port |-> 0,
     is_connected |-> FALSE, status |-> ""]

\* The record is stored connected.
NewSessionConnected(i, h, p) ==
    [exists |-> TRUE, session_id |-> i, host |-> h, port |-> p,
     is_connected |-> TRUE, status |-> "created"]

\* debugpy_client.py:34-39: status="created", is_connected defaults to False.
NewSession(i, h, p) ==
    [exists |-> TRUE, session_id |-> i, host |-> h, port |-> p,
     is_connected |-> FALSE, status |-> "created"]

\* models.py:19-26: a Breakpoint (is_enabled and hit_count keep their
\* defaults; the condition is None).
NewBreakpoint(n, f, l) == [breakpoint_id |-> n, file_path |-> f, line_number |-> l]
NoBreakpoint == NewBreakpoint(0, "", 0)

\* The "body" and "message" of a response as evaluate_expression reads them:
\* each key is a string or "absent".
NoBody == [result |-> "absent", type |-> "absent", message |-> "absent"]
\* models.py:65-71: an ExpressionResult; error_message "none" is None.
ExpressionResult(r, t, e, m) ==
    [result |-> r, type |-> t, is_error |-> e, error_message |-> m]
NoResult == ExpressionResult("", "", FALSE, "none")

\* The last call: its name, its session id, its host and port (create), the
\* value it returned ("true", "false", "none", "breakpoint", "list",
\* "result" or a session id), the breakpoint, the list or the
\* ExpressionResult it returned, the seq of the last request it sent
\* (0: none) and what _send_request returned for it with the body read from
\* it; for a setBreakpoints request the source path and the lines of the
\* breakpoints it lists.
NoCall ==
    [op |-> "", sid |-> "", host |-> "", port |-> 0, ret |-> "",
     bp |-> NoBreakpoint, seq |-> 0, resp |-> None, path |-> "",
     lines |-> <<>>, list |-> <<>>, body |-> NoBody, result |-> NoResult]
Call(o, i, v) == [NoCall EXCEPT !.op = o, !.sid = i, !.ret = v]

\* debugpy_client.py:24-29.
SessInit ==
    /\ sessions = [i \in SessionIds |-> NoSession]
    /\ connections = [i \in SessionIds |-> 0]
    /\ breakpoints = [i \in SessionIds |-> <<>>]
    /\ client_sequence_number = 1
    /\ clientSockets = [k \in ClientSockIds |-> "unused"]
    /\ clientSocketOwner = [k \in ClientSockIds |-> ""]
    /\ clientWire = {}
    /\ issued = [i \in SessionIds |-> <<>>]
    /\ setNotCleared = [i \in SessionIds |-> <<>>]
    /\ lastCall = NoCall

Known(i) == i \in SessionIds /\ sessions[i].exists

\* debugpy_client.py:391-393: get_session; NoSession stands for None.
GetSession(i) == IF Known(i) THEN sessions[i] ELSE NoSession
\* debugpy_client.py:395-397: list_sessions, as a set.
ListSessions == {sessions[i] : i \in {j \in SessionIds : sessions[j].exists}}
\* debugpy_client.py:399-401: list_breakpoints.
ListBreakpoints(i) == IF i \in SessionIds THEN breakpoints[i] ELSE <<>>

\* debugpy_client.py:31-45: create_session(host, port) returns a fresh uuid
\* and stores a record that is not connected and an empty breakpoint list.
CreateSession(i, h, p) ==
    /\ i \in SessionIds
    /\ ~sessions[i].exists
    /\ sessions' = [sessions EXCEPT ![i] = NewSession(i, h, p)]
    /\ breakpoints' = [breakpoints EXCEPT ![i] = <<>>]
    /\ lastCall' = [Call("create_session", i, i) EXCEPT !.host = h, !.port = p]
    /\ UNCHANGED <<connections, client_sequence_number, clientSockets,
                   clientSocketOwner, clientWire, issued, setNotCleared>>
    /\ UNCHANGED nonSess

\* debugpy_client.py:355-378: what _read_response can return for the request
\* with seq s: the next message on the socket, whatever it is (the response
\* to this request, the response to an earlier one, an event), or None (a
\* read error, a timeout, a body that is no JSON, a zero Content-Length).
ReadResponses(s) ==
    {Response(x, ok) : x \in {s, s - 1} \ {0}, ok \in SuccessValues}
        \cup {Event(e) : e \in EventNames} \cup {None}

\* The sockets connect_session has opened so far, and the next one.
ClientOpened == {k \in ClientSockIds : clientSockets[k] # "unused"}
\* Every connect_session call takes the same socket, the first.
SharedClientSocket ==
    CHOOSE k \in ClientSockIds : \A h \in ClientSockIds : k <= h

\* debugpy_client.py:57: socket.socket(...) makes a new socket object.
NextClientSocket ==
    CHOOSE k \in ClientSockIds \ ClientOpened :
        \A h \in ClientSockIds \ ClientOpened : k <= h

\* The test is `session_id not in self.sessions`.
HasSession(i) == i \in SessionIds /\ sessions[i].exists

\* debugpy_client.py:325: `session_id not in self.connections`.
HasConnection(i) == i \in SessionIds /\ connections[i] # 0

\* debugpy_client.py:323-353: what _send_request(i, c, ...) returns: None
\* without a connection or when send raises, else what _read_response read.
RequestResult(i, sendOk, r) == IF HasConnection(i) /\ sendOk THEN r ELSE None

\* What _send_request(i, c, ...) can return, taken from what _read_response
\* can return for its seq.
ReadsOf(i, sendOk) ==
    IF HasConnection(i) /\ sendOk THEN ReadResponses(client_sequence_number)
    ELSE {None}

\* debugpy_client.py:325-345: the effect of _send_request(i, c, ...) on the
\* counter and the socket: with a connection it takes the next seq, and the
\* frame is written unless send raises.
RequestSent(i, c, sendOk) ==
    /\ HasConnection(i) => client_sequence_number <= MaxClientSeq
    /\ client_sequence_number' =
           IF HasConnection(i) THEN client_sequence_number + 1
           ELSE client_sequence_number
    /\ clientWire' =
           IF HasConnection(i) /\ sendOk
             THEN clientWire \cup {<<connections[i], client_sequence_number, c>>}
             ELSE clientWire
\* The seq a request of session i takes now (0: it takes none).
RequestSeq(i) == IF HasConnection(i) THEN client_sequence_number ELSE 0

\* debugpy_client.py:47-86 with _send_request (323-353): connect_session on
\* session i.  connectOk: whether socket.connect succeeds; sendOk: whether
\* sock.send succeeds.
ConnectSession(i, connectOk, sendOk) ==
    /\ UNCHANGED nonSess
    /\ Known(i) => ClientOpened # ClientSockIds /\ client_sequence_number <= MaxClientSeq
    /\ UNCHANGED <<breakpoints, issued, setNotCleared>>
    /\ IF ~Known(i)
         THEN \* lines 49-51
              /\ lastCall' = Call("connect_session", i, "false")
              /\ UNCHANGED <<sessions, connections, client_sequence_number,
                             clientSockets, clientSocketOwner, clientWire>>
         ELSE IF ~connectOk
         THEN \* lines 57-59, 83-86
              /\ sessions' = [sessions EXCEPT ![i].status = "connection_failed"]
              /\ clientSockets' = [clientSockets EXCEPT ![NextClientSocket] = "failed"]
              /\ clientSocketOwner' = [clientSocketOwner EXCEPT ![NextClientSocket] = i]
              /\ lastCall' = Call("connect_session", i, "false")
              /\ UNCHANGED <<connections, client_sequence_number, clientWire>>
         ELSE LET k == NextClientSocket
                  old == connections[i]
              IN  \* lines 57-81.  Line 61 overwrites the entry of a session
                  \* that has a connection: the socket it held is not closed
                  \* by the code; it stays open, or the interpreter closes it
                  \* when it finalizes the object.
                  /\ IF old = 0
                       THEN clientSockets' = [clientSockets EXCEPT ![k] = "open"]
                       ELSE \E finalized \in {"open", "closed"} :
                                clientSockets' = [clientSockets EXCEPT
                                                     ![k] = "open",
                                                     ![old] = finalized]
                  /\ clientSocketOwner' = [clientSocketOwner EXCEPT ![k] = i]
                  /\ connections' = [connections EXCEPT ![i] = k]
                  /\ client_sequence_number' = client_sequence_number + 1
                  /\ clientWire' = IF sendOk
                                     THEN clientWire \cup {<<k, client_sequence_number, "initialize">>}
                                     ELSE clientWire
                  \* lines 76-81: the value _send_request returned is not
                  \* looked at
                  /\ sessions' = [sessions EXCEPT ![i].is_connected = TRUE,
                                                   ![i].status = "connected"]
                  /\ \E r \in IF sendOk THEN ReadResponses(client_sequence_number) ELSE {None} :
                         lastCall' = [Call("connect_session", i, "true") EXCEPT
                                         !.seq = client_sequence_number,
                                         !.resp = IF sendOk THEN r ELSE None]

\* Only the status is updated.
DisconnectedStatusOnly(session) == [session EXCEPT !.status = "disconnected"]

\* debugpy_client.py:98-100: the record after disconnect_session.
Disconnected(session) ==
    [session EXCEPT !.is_connected = FALSE, !.status = "disconnected"]

\* debugpy_client.py:88-107: disconnect_session on session i.
DisconnectSession(i) ==
    /\ UNCHANGED nonSess
    /\ IF ~Known(i)
         THEN /\ lastCall' = Call("disconnect_session", i, "false")
              /\ UNCHANGED <<sessions, connections, clientSockets>>
         ELSE /\ IF connections[i] # 0
                   THEN /\ clientSockets' = [clientSockets EXCEPT ![connections[i]] = "closed"]
                        /\ connections' = [connections EXCEPT ![i] = 0]
                   ELSE UNCHANGED <<connections, clientSockets>>
              /\ sessions' = [sessions EXCEPT ![i] = Disconnected(@)]
              /\ lastCall' = Call("disconnect_session", i, "true")
    /\ UNCHANGED <<client_sequence_number, clientWire, clientSocketOwner,
                   breakpoints, issued, setNotCleared>>

\* debugpy_client.py:93-95, 105-107: close() raises on the socket of session
\* i; the entry is not deleted, the record is not updated and False is
\* returned.
DisconnectSessionFails(i) ==
    /\ UNCHANGED nonSess
    /\ Known(i)
    /\ connections[i] # 0
    /\ lastCall' = Call("disconnect_session", i, "false")
    /\ UNCHANGED <<sessions, connections, clientSockets, client_sequence_number,
                   clientWire, clientSocketOwner, breakpoints, issued,
                   setNotCleared>>

\* list.pop(k), 1-based.
RemoveAt(s, k) == SubSeq(s, 1, k - 1) \o SubSeq(s, k + 1, Len(s))
\* The ids clear_breakpoint is called with.
BreakpointIds == 1..MaxClientSeq

\* A response counts unless it says success false.
SucceededUnlessFalse(response) == response # None /\ response.success # "false"

\* `response and response.get("success")` is truthy.
Succeeded(response) == response # None /\ response.success = "true"

\* debugpy_client.py:109-143: set_breakpoint(i, f, l).  sendOk: whether
\* sock.send succeeds.
SetBreakpoint(i, f, l, sendOk) ==
    /\ UNCHANGED nonSess
    /\ UNCHANGED <<sessions, connections, clientSockets, clientSocketOwner>>
    /\ IF ~Known(i) \/ ~sessions[i].is_connected
         THEN \* lines 112-114
              /\ lastCall' = Call("set_breakpoint", i, "none")
              /\ UNCHANGED <<breakpoints, issued, setNotCleared,
                             client_sequence_number, clientWire>>
         ELSE /\ RequestSent(i, "setBreakpoints", sendOk)
              /\ \E r \in ReadsOf(i, sendOk) :
                   LET breakpoint_id == Len(breakpoints[i]) + 1
                       response == RequestResult(i, sendOk, r)
                       breakpoint == NewBreakpoint(breakpoint_id, f, l)
                   IN  IF Succeeded(response)
                         THEN \* lines 128-138
                              /\ breakpoints' = [breakpoints EXCEPT
                                                    ![i] = Append(@, breakpoint)]
                              /\ issued' = [issued EXCEPT
                                               ![i] = Append(@, breakpoint_id)]
                              /\ setNotCleared' = [setNotCleared EXCEPT
                                                      ![i] = Append(@, breakpoint)]
                              /\ lastCall' = [Call("set_breakpoint", i, "breakpoint")
                                                EXCEPT !.bp = breakpoint,
                                                       !.seq = RequestSeq(i),
                                                       !.resp = response,
                                                       !.path = f,
                                                       !.lines = <<l>>]
                         ELSE \* line 143
                              /\ UNCHANGED <<breakpoints, issued, setNotCleared>>
                              /\ lastCall' = [Call("set_breakpoint", i, "none")
                                                EXCEPT !.seq = RequestSeq(i),
                                                       !.resp = response,
                                                       !.path = f,
                                                       !.lines = <<l>>]

\* debugpy_client.py:145-167: clear_breakpoint(i, n).  The value
\* _send_request returns is not looked at, and _send_request raises nothing.
ClearBreakpoint(i, n, sendOk) ==
    /\ UNCHANGED nonSess
    /\ UNCHANGED <<sessions, connections, clientSockets, clientSocketOwner, issued>>
    /\ LET found == IF Known(i)
                      THEN {k \in 1..Len(breakpoints[i]) :
                               breakpoints[i][k].breakpoint_id = n}
                      ELSE {}
       IN  IF found = {}
             THEN \* lines 147-148, 167
                  /\ lastCall' = Call("clear_breakpoint", i, "false")
                  /\ UNCHANGED <<breakpoints, setNotCleared,
                                 client_sequence_number, clientWire>>
             ELSE LET k == CHOOSE k \in found : \A j \in found : k <= j
                  IN  \* lines 151-162: the request names the file of the
                      \* breakpoint and lists no breakpoint (line 157)
                      /\ RequestSent(i, "setBreakpoints", sendOk)
                      /\ breakpoints' = [breakpoints EXCEPT ![i] = RemoveAt(@, k)]
                      /\ setNotCleared' =
                             [setNotCleared EXCEPT
                                 ![i] = SelectSeq(@, LAMBDA b : b.breakpoint_id # n)]
                      /\ \E r \in ReadsOf(i, sendOk) :
                             lastCall' = [Call("clear_breakpoint", i, "true")
                                            EXCEPT !.seq = RequestSeq(i),
                                                   !.resp = RequestResult(i, sendOk, r),
                                                   !.path = breakpoints[i][k].file_path,
                                                   !.lines = <<>>]

\* ----------------------------------- DebugpyClient, the other operations
\* The calls below send requests while self.sequence_number <= MaxCallSeq.
MaxCallSeq == 3
\* What the adapter answers: the frame ids of "stackFrames", the
\* variablesReference of each of "scopes", the names of "variables", and
\* the body and message of an evaluate response.
StackFrameLists == {<<>>, <<1>>}
ScopeLists == {<<>>, <<0>>, <<1>>}
VariableLists == {<<>>, <<"x">>}
EvalBodies ==
    {[result |-> "42", type |-> "int", message |-> "absent"],
     [result |-> "absent", type |-> "absent", message |-> "absent"],
     [result |-> "absent", type |-> "absent", message |-> "NameError"]}

\* A call on session i may send its requests.
CanRequest(i, n) ==
    HasConnection(i) => client_sequence_number + n - 1 <= MaxCallSeq

\* What the calls of this section leave alone.
registry == <<sessions, connections, clientSockets, clientSocketOwner,
              breakpoints, issued, setNotCleared>>

\* debugpy_client.py:399-401: a list_breakpoints(i) call.
ListBreakpointsCall(i) ==
    /\ lastCall' = [Call("list_breakpoints", i, "list") EXCEPT
                       !.list = ListBreakpoints(i)]
    /\ UNCHANGED <<registry, client_sequence_number, clientWire>>
    /\ UNCHANGED nonSess

\* set_breakpoint and clear_breakpoint, while the counter is within MaxCallSeq.
SetBreakpointCall(i, f, l, sendOk) ==
    CanRequest(i, 1) /\ SetBreakpoint(i, f, l, sendOk)
ClearBreakpointCall(i, n, sendOk) ==
    CanRequest(i, 1) /\ ClearBreakpoint(i, n, sendOk)

\* debugpy_client.py:169-215: continue_execution, step_over, step_into and
\* step_out send one request c and return
\* `response and response.get("success", False)`: None without a response.
StepResult(response) ==
    IF response = None THEN "none"
    ELSE IF response.success = "true" THEN "true" ELSE "false"
StepCall(o, c, i, sendOk) ==
    /\ CanRequest(i, 1)
    /\ RequestSent(i, c, sendOk)
    /\ \E r \in ReadsOf(i, sendOk) :
           LET response == RequestResult(i, sendOk, r)
           IN  lastCall' = [Call(o, i, StepResult(response)) EXCEPT
                               !.seq = RequestSeq(i), !.resp = response]
    /\ UNCHANGED registry
    /\ UNCHANGED nonSess
ContinueExecution(i, sendOk) == StepCall("continue_execution", "continue", i, sendOk)
StepOver(i, sendOk) == StepCall("step_over", "next", i, sendOk)
StepInto(i, sendOk) == StepCall("step_into", "stepIn", i, sendOk)
StepOut(i, sendOk) == StepCall("step_out", "stepOut", i, sendOk)

\* debugpy_client.py:217-241: get_stack_trace returns the frames of a
\* successful response, [] otherwise.
GetStackTrace(i, sendOk) ==
    /\ CanRequest(i, 1)
    /\ RequestSent(i, "stackTrace", sendOk)
    /\ \E r \in ReadsOf(i, sendOk) :
           LET response == RequestResult(i, sendOk, r)
           IN  \E fs \in IF Succeeded(response) THEN StackFrameLists ELSE {<<>>} :
                   lastCall' = [Call("get_stack_trace", i, "list") EXCEPT
                                   !.seq = RequestSeq(i), !.resp = response,
                                   !.list = fs]
    /\ UNCHANGED registry
    /\ UNCHANGED nonSess

\* debugpy_client.py:243-279: get_variables sends "scopes" and, for each
\* scope of a successful response that has a variablesReference, "variables".
\* sendOk: whether the send of the scopes request succeeds.
GetVariables(i, sendOk) ==
    /\ CanRequest(i, 2)
    /\ UNCHANGED registry
    /\ UNCHANGED nonSess
    /\ \E r \in ReadsOf(i, sendOk) :
         LET s == client_sequence_number
             scopes_response == RequestResult(i, sendOk, r)
             first == IF HasConnection(i) /\ sendOk
                        THEN {<<connections[i], s, "scopes">>} ELSE {}
         IN  \E scopes \in IF Succeeded(scopes_response) THEN ScopeLists ELSE {<<>>} :
               IF scopes # <<1>>
                 THEN \* lines 251-252, or no scope with a variablesReference
                      /\ client_sequence_number' = IF HasConnection(i) THEN s + 1 ELSE s
                      /\ clientWire' = clientWire \cup first
                      /\ lastCall' = [Call("get_variables", i, "list") EXCEPT
                                         !.seq = RequestSeq(i),
                                         !.resp = scopes_response]
                 ELSE \* lines 259-273
                      \E sendOk2 \in BOOLEAN :
                      \E r2 \in IF sendOk2 THEN ReadResponses(s + 1) ELSE {None} :
                      \E vs \in IF Succeeded(r2) THEN VariableLists ELSE {<<>>} :
                          /\ client_sequence_number' = s + 2
                          /\ clientWire' =
                                 clientWire \cup first \cup
                                   (IF sendOk2
                                      THEN {<<connections[i], s + 1, "variables">>}
                                      ELSE {})
                          /\ lastCall' = [Call("get_variables", i, "list") EXCEPT
                                             !.seq = s + 1,
                                             !.resp = r2,
                                             !.list = vs]

\* The result is flagged as no error.
EvaluateResultUnflagged(response, body) ==
    IF Succeeded(response)
      THEN ExpressionResult(IF body.result = "absent" THEN "" ELSE body.result,
                            IF body.type = "absent" THEN "unknown" ELSE body.type,
                            FALSE, "none")
      ELSE ExpressionResult("", "error", FALSE,
                            IF response = None THEN "No response"
                            ELSE IF body.message = "absent" THEN "Unknown error"
                            ELSE body.message)

\* debugpy_client.py:295-311: the ExpressionResult evaluate_expression makes
\* of the response and its body.
EvaluateResult(response, body) ==
    IF Succeeded(response)
      THEN ExpressionResult(IF body.result = "absent" THEN "" ELSE body.result,
                            IF body.type = "absent" THEN "unknown" ELSE body.type,
                            FALSE, "none")
      ELSE ExpressionResult("", "error", TRUE,
                            IF response = None THEN "No response"
                            ELSE IF body.message = "absent" THEN "Unknown error"
                            ELSE body.message)

\* debugpy_client.py:281-321: evaluate_expression(i, expression).
EvaluateExpression(i, sendOk) ==
    /\ CanRequest(i, 1)
    /\ RequestSent(i, "evaluate", sendOk)
    /\ \E r \in ReadsOf(i, sendOk) :
           LET response == RequestResult(i, sendOk, r)
           IN  \E body \in IF response = None THEN {NoBody} ELSE EvalBodies :
                   lastCall' = [Call("evaluate_expression", i, "result") EXCEPT
                                   !.seq = RequestSeq(i), !.resp = response,
                                   !.body = body,
                                   !.result = EvaluateResult(response, body)]
    /\ UNCHANGED registry
    /\ UNCHANGED nonSess

\* ------------------------------------- DAPClient._receive_loop, the bytes
\* A byte is a string that names it: an ASCII byte is its character, "CR" and
\* "LF" are \r and \n, "c3" "a9" are the two bytes of U+00E9 (the character "eacute"), and "ff" is a
\* byte that occurs in no UTF-8 text.  A character is its own string.
\* The adapter sends at most MaxFrames frames on a connection of the model.
MaxFrames == 2
\* dap_client.py:190: recv(4096).
RecvSize == 4096

HeaderName == <<"C", "o", "n", "t", "e", "n", "t", "-", "L", "e", "n", "g", "t", "h", ":">>
Terminator == <<"CR", "LF", "CR", "LF">>
CRLF == <<"CR", "LF">>
DigitChars == <<"0", "1", "2", "3", "4", "5", "6", "7", "8", "9">>
IsDigit(c) == \E d \in 1..10 : DigitChars[d] = c
DigitValue(c) == (CHOOSE d \in 1..10 : DigitChars[d] = c) - 1

Take(s, n) == SubSeq(s, 1, n)
Drop(s, n) == SubSeq(s, n + 1, Len(s))

\* bytes.find / str.find: the 0-based index of the first occurrence of sub in
\* s, -1 when there is none.
Find(s, sub) ==
    LET hits == {i \in 1..(Len(s) - Len(sub) + 1) :
                    SubSeq(s, i, i + Len(sub) - 1) = sub}
    IN  IF hits = {} THEN -1
        ELSE (CHOOSE i \in hits : \A j \in hits : i <= j) - 1

\* str.split(sep).
RECURSIVE Split(_, _)
Split(s, sep) ==
    LET i == Find(s, sep)
    IN  IF i = -1 THEN <<s>>
        ELSE <<Take(s, i)>> \o Split(Drop(s, i + Len(sep)), sep)

\* str.startswith(prefix).
StartsWith(s, prefix) == Len(s) >= Len(prefix) /\ Take(s, Len(prefix)) = prefix

\* str.strip(), for the whitespace of the model: the space.
RECURSIVE Strip(_)
Strip(s) ==
    IF s = <<>> THEN s
    ELSE IF s[1] = " " THEN Strip(Drop(s, 1))
    ELSE IF s[Len(s)] = " " THEN Strip(Take(s, Len(s) - 1))
    ELSE s

\* int(text): whether it parses, and its value.
IsInt(s) == s # <<>> /\ \A i \in 1..Len(s) : IsDigit(s[i])
RECURSIVE ParseInt(_)
ParseInt(s) ==
    IF s = <<>> THEN 0
    ELSE ParseInt(Take(s, Len(s) - 1)) * 10 + DigitValue(s[Len(s)])

\* str(n) of a natural number.
RECURSIVE Decimal(_)
Decimal(n) ==
    IF n < 10 THEN <<DigitChars[n + 1]>>
    ELSE Decimal(n \div 10) \o <<DigitChars[(n % 10) + 1]>>

\* bytes.decode('utf-8'): whether it succeeds, and the text.  The only
\* multi-byte sequence of the model is c3 a9.
Utf8Valid(b) ==
    \A i \in 1..Len(b) :
        /\ b[i] # "ff"
        /\ b[i] = "c3" => (i < Len(b) /\ b[i + 1] = "a9")
        /\ b[i] = "a9" => (i > 1 /\ b[i - 1] = "c3")
IsLeadByte(x) == x # "a9"
Utf8Text(b) ==
    LET leads == SelectSeq(b, IsLeadByte)
    IN  [i \in 1..Len(leads) |-> IF leads[i] = "c3" THEN "eacute" ELSE leads[i]]

\* str.encode('utf-8').
RECURSIVE Utf8Encode(_)
Utf8Encode(t) ==
    IF t = <<>> THEN <<>>
    ELSE IF Len(t) = 1 THEN (IF t[1] = "eacute" THEN <<"c3", "a9">> ELSE t)
    ELSE Utf8Encode(Take(t, Len(t) \div 2)) \o Utf8Encode(Drop(t, Len(t) \div 2))

\* json.loads(content), for the texts of the model: "object" for a JSON
\* object ({} or {"k":d}), "other" for another JSON value ([] or a digit),
\* "error" when it raises JSONDecodeError.
JsonLoads(t) ==
    IF t = <<"{", "}">> THEN "object"
    ELSE IF /\ Len(t) = 7
            /\ t[1] = "{" /\ t[2] = "\"" /\ t[3] \in {"a", "eacute"} /\ t[4] = "\""
            /\ t[5] = ":" /\ IsDigit(t[6]) /\ t[7] = "}" THEN "object"
    ELSE IF t = <<"[", "]">> THEN "other"
    ELSE IF Len(t) = 1 /\ IsDigit(t[1]) THEN "other"
    ELSE "error"

\* dap_client.py:202-206: content_length as the loop takes it from the header
\* text: 0 when no line starts with Content-Length:, ok false when int()
\* raises ValueError.
ContentLength(header) ==
    LET lines == Split(header, CRLF)
        found == {i \in 1..Len(lines) : StartsWith(lines[i], HeaderName)}
    IN  IF found = {} THEN [ok |-> TRUE, n |-> 0]
        ELSE LET line == lines[CHOOSE i \in found : \A j \in found : i <= j]
                 field == Strip(Split(line, <<":">>)[2])
             IN  IF IsInt(field) THEN [ok |-> TRUE, n |-> ParseInt(field)]
                 ELSE [ok |-> FALSE, n |-> 0]

\* How the adapter frames a body: a Content-Length header that counts its
\* bytes.
Framed(k, t, b) ==
    [kind |-> k, text |-> t, body |-> b,
     header |-> HeaderName \o <<" ">> \o Decimal(Len(b))]
\* The JSON objects the adapter sends.
ObjectTexts == {<<"{", "}">>, <<"{", "\"", "eacute", "\"", ":", "1", "}">>}
\* The frames of the model: well-formed ones ("ok"); a body that is text
\* but no JSON; a body that is no UTF-8; a body that is JSON but no object;
\* a header with no Content-Length line; a Content-Length that is no number.
AdapterByteFrames ==
    {Framed("ok", t, Utf8Encode(t)) : t \in ObjectTexts}
        \cup {Framed("badjson", <<"}", "{">>, <<"}", "{">>),
              Framed("badutf8", <<>>, <<"ff">>),
              Framed("nonobject", <<"[", "]">>, <<"[", "]">>),
              [kind |-> "nolength", text |-> <<"{", "}">>, body |-> <<"{", "}">>,
               header |-> <<"X", ":", "1">>],
              [kind |-> "badlength", text |-> <<"{", "}">>, body |-> <<"{", "}">>,
               header |-> HeaderName \o <<" ", "x">>]}

FrameBytes(f) == f.header \o Terminator \o f.body
RECURSIVE StreamOf(_)
StreamOf(fs) == IF fs = <<>> THEN <<>> ELSE FrameBytes(fs[1]) \o StreamOf(Drop(fs, 1))

\* Where offset off of the stream of frames fs lies: at a frame "boundary",
\* inside a "header", a "terminator" or a "body".
RECURSIVE CutKind(_, _)
CutKind(fs, off) ==
    IF fs = <<>> \/ off = 0 THEN "boundary"
    ELSE LET h == Len(fs[1].header)
             n == Len(FrameBytes(fs[1]))
         IN  IF off >= n THEN CutKind(Drop(fs, 1), off - n)
             ELSE IF off <= h THEN "header"
             ELSE IF off < h + 4 THEN "terminator"
             ELSE "body"

FrameSeqs == UNION {[1..n -> AdapterByteFrames] : n \in 1..MaxFrames}

\* The loop is not part of the run.
DecIdle ==
    /\ frames = <<>>
    /\ stream = <<>>
    /\ buffer = <<>>
    /\ handled = <<>>
    /\ dpc = "off"
    /\ dend = ""
    /\ cuts = {}

\* dap_client.py:184-186: the loop starts with an empty buffer; the adapter
\* is about to send the frames of `frames` and then close the connection.
DecInit ==
    /\ frames \in FrameSeqs
    /\ stream = StreamOf(frames)
    /\ buffer = <<>>
    /\ handled = <<>>
    /\ dpc = "recv"
    /\ dend = ""
    /\ cuts = {}

\* buffer = data: what was buffered before the read is dropped.
BufferReplace(buf, data) == data

\* dap_client.py:194: buffer += data.
BufferAppend(buf, data) == buf \o data

\* dap_client.py:188-194: recv returns the next n bytes of the connection.
DecRecv ==
    /\ dpc = "recv"
    /\ \E n \in 1..Len(stream) :
         /\ n <= RecvSize
         /\ buffer' = BufferAppend(buffer, Take(stream, n))
         /\ stream' = Drop(stream, n)
         /\ cuts' = cuts \cup
                      ({CutKind(frames, Len(StreamOf(frames)) - Len(stream) + n)}
                           \ {"boundary"})
    /\ dpc' = "scan"
    /\ UNCHANGED <<frames, handled, dend>>
    /\ UNCHANGED <<dapVars, sessVars, dcWasConnected, wrVars, restVars>>

\* dap_client.py:190-192: recv returns b"" once the adapter has closed.
DecEof ==
    /\ dpc = "recv"
    /\ stream = <<>>
    /\ dpc' = "ended"
    /\ dend' = "eof"
    /\ UNCHANGED <<frames, stream, buffer, handled, cuts>>
    /\ UNCHANGED <<dapVars, sessVars, dcWasConnected, wrVars, restVars>>

\* dap_client.py:197-228: one turn of `while b'\r\n\r\n' in buffer`.  An
\* exception other than JSONDecodeError reaches the handler at line 225,
\* which leaves the loop.
DecScan ==
    /\ dpc = "scan"
    /\ LET header_end == Find(buffer, Terminator)
           header == Take(buffer, header_end)
           cl == ContentLength(Utf8Text(header))
           content_start == header_end + 4
           content_end == content_start + cl.n
           content == SubSeq(buffer, content_start + 1, content_end)
           raised == /\ dpc' = "ended"
                     /\ dend' = "error"
                     /\ UNCHANGED <<buffer, handled>>
       IN  IF header_end = -1
             THEN \* line 197: no complete header yet
                  /\ dpc' = "recv"
                  /\ UNCHANGED <<buffer, handled, dend>>
           ELSE IF ~Utf8Valid(header) \/ ~cl.ok
             THEN \* line 199 or line 205 raises
                  raised
           ELSE IF Len(buffer) < content_end
             THEN \* lines 221-223: wait for more data
                  /\ dpc' = "recv"
                  /\ UNCHANGED <<buffer, handled, dend>>
           ELSE IF ~Utf8Valid(content)
             THEN \* line 212 raises
                  raised
           ELSE IF JsonLoads(Utf8Text(content)) = "error"
             THEN \* lines 213, 219-220: logged, the frame is dropped
                  /\ buffer' = Drop(buffer, content_end)
                  /\ UNCHANGED <<handled, dpc, dend>>
           ELSE IF JsonLoads(Utf8Text(content)) = "other"
             THEN \* lines 213, 218, 232: message.get raises AttributeError
                  /\ buffer' = Drop(buffer, content_end)
                  /\ dpc' = "ended"
                  /\ dend' = "error"
                  /\ UNCHANGED handled
           ELSE \* lines 213-218: the message is handled
                  /\ buffer' = Drop(buffer, content_end)
                  /\ handled' = Append(handled, Utf8Text(content))
                  /\ UNCHANGED <<dpc, dend>>
    /\ UNCHANGED <<frames, stream, cuts>>
    /\ UNCHANGED <<dapVars, sessVars, dcWasConnected, wrVars, restVars>>

\* ------------------------------------------------- the request frames
\* Argument strings have at most MaxArgLen characters in the model.
MaxArgLen == 2
\* The writers of the model send while sequence_number <= MaxWriteSeq.
MaxWriteSeq == 4

\* The characters of argument strings: a plain one, one that JSON escapes,
\* one outside ASCII (U+00E9, two bytes in UTF-8).
ArgChars == {"a", "\"", "eacute"}
ArgValues == UNION {[1..n -> ArgChars] : n \in 0..MaxArgLen}
\* dap_client.py:138, 142: the commands whose frames the model builds:
\* evaluate, with the string as its expression, and threads, with no argument.
FrameCommands == {"evaluate", "threads"}
CommandText(c) ==
    IF c = "evaluate" THEN <<"e", "v", "a", "l", "u", "a", "t", "e">>
    ELSE <<"t", "h", "r", "e", "a", "d", "s">>

\* ensure_ascii=False and no escaping: the character as it is.
JsonEscapeRaw(c) == <<c>>

\* json.dumps on one character of a string (ensure_ascii is True by default).
JsonEscape(c) ==
    IF c = "\"" THEN <<"\\", "\"">>
    ELSE IF c = "\\" THEN <<"\\", "\\">>
    ELSE IF c = "eacute" THEN <<"\\", "u", "0", "0", "e", "9">>
    ELSE <<c>>

\* json.dumps of a string.
RECURSIVE JsonEscapeAll(_)
JsonEscapeAll(t) ==
    IF t = <<>> THEN <<>> ELSE JsonEscape(t[1]) \o JsonEscapeAll(Drop(t, 1))
JsonString(t) == <<"\"">> \o JsonEscapeAll(t) \o <<"\"">>

\* The fixed pieces of the serialized request.
LitSeq ==
    <<"{", "\"", "s", "e", "q", "\"", ":", " ">>
LitCommand ==
    <<",", " ", "\"", "t", "y", "p", "e", "\"", ":", " ", "\"", "r", "e",
      "q", "u", "e", "s", "t", "\"", ",", " ", "\"", "c", "o", "m", "m",
      "a", "n", "d", "\"", ":", " ">>
LitArguments ==
    <<",", " ", "\"", "a", "r", "g", "u", "m", "e", "n", "t", "s", "\"",
      ":", " ">>
LitExpression ==
    <<"{", "\"", "e", "x", "p", "r", "e", "s", "s", "i", "o", "n", "\"",
      ":", " ">>
LitContext ==
    <<",", " ", "\"", "c", "o", "n", "t", "e", "x", "t", "\"", ":", " ",
      "\"", "r", "e", "p", "l", "\"", "}">>

\* dap_client.py:132-135, 142: json.dumps of the arguments of command c.
JsonArguments(c, a) ==
    IF c = "evaluate" THEN LitExpression \o JsonString(a) \o LitContext
    ELSE <<"{", "}">>

\* dap_client.py:153-166, debugpy_client.py:333-341: json.dumps(request).
JsonDumpsRequest(s, c, a) ==
    LitSeq \o Decimal(s) \o LitCommand \o JsonString(CommandText(c))
        \o LitArguments \o JsonArguments(c, a) \o <<"}">>

\* dap_client.py:166-168: the bytes DAPClient._send_request hands to send;
\* the header carries len(message).
DAPContent(s, c, a) ==
    LET message == JsonDumpsRequest(s, c, a)
    IN  Utf8Encode(HeaderName \o <<" ">> \o Decimal(Len(message))
                       \o Terminator \o message)

\* debugpy_client.py:341-345: the bytes DebugpyClient._send_request hands to
\* send; the header carries len(message.encode('utf-8')).
ClientContent(s, c, a) ==
    LET message == JsonDumpsRequest(s, c, a)
        content_length == Len(Utf8Encode(message))
    IN  Utf8Encode(HeaderName \o <<" ">> \o Decimal(content_length)
                       \o Terminator \o message)

\* The frame of one request, as a function of its inputs.
NoRequest == [who |-> "", seq |-> 0, command |-> "", arg |-> <<>>]
EncInputs ==
    {[who |-> w, seq |-> s, command |-> c, arg |-> a] :
        w \in {"DAPClient", "DebugpyClient"}, s \in Seqs, c \in FrameCommands,
        a \in ArgValues}

\* No frame is being built.
EncIdle ==
    /\ encIn = NoRequest
    /\ encOut = <<>>

\* A request is about to be serialized: its client, seq, command, argument.
EncInit ==
    /\ encIn \in {r \in EncInputs : r.command = "threads" => r.arg = <<>>}
    /\ encOut = <<>>

\* dap_client.py:164-168: DAPClient._send_request builds the frame and hands
\* it to socket.send.
DAPClientEncode ==
    /\ encIn.who = "DAPClient"
    /\ encOut = <<>>
    /\ encOut' = DAPContent(encIn.seq, encIn.command, encIn.arg)
    /\ UNCHANGED <<encIn, writerVars>>
    /\ UNCHANGED <<dapVars, sessVars, dcWasConnected, decVars, restVars>>

\* debugpy_client.py:340-345: DebugpyClient._send_request builds the frame
\* and hands it to sock.send.
DebugpyClientEncode ==
    /\ encIn.who = "DebugpyClient"
    /\ encOut = <<>>
    /\ encOut' = ClientContent(encIn.seq, encIn.command, encIn.arg)
    /\ UNCHANGED <<encIn, writerVars>>
    /\ UNCHANGED <<dapVars, sessVars, dcWasConnected, decVars, restVars>>

\* ------------------------------- concurrent writers of one DAPClient socket
\* Threads inside _send_request of a connected DAPClient, up to its send.
Writers == {"w1", "w2"}
\* dap_client.py:43-60: connect() has taken seq 1 and 2 for initialize and
\* configurationDone.
FirstWriteSeq == 3

\* The writers are not part of the run.
WritersIdle ==
    /\ wrSeqNo = 0
    /\ wpc = [t \in Writers |-> "off"]
    /\ wseq = [t \in Writers |-> 0]
    /\ sockOut = <<>>

\* The client is connected and no request method has been called yet.
WritersInit ==
    /\ wrSeqNo = FirstWriteSeq
    /\ wpc = [t \in Writers |-> "idle"]
    /\ wseq = [t \in Writers |-> 0]
    /\ sockOut = <<>>

\* dap_client.py:144-151: _send_request is entered on the connected client
\* and takes its seq under self.lock.
WrAlloc(t) ==
    /\ wpc[t] = "idle"
    /\ wrSeqNo <= MaxWriteSeq
    /\ wseq' = [wseq EXCEPT ![t] = wrSeqNo]
    /\ wrSeqNo' = wrSeqNo + 1
    /\ wpc' = [wpc EXCEPT ![t] = "send"]
    /\ UNCHANGED <<sockOut, encIn, encOut>>
    /\ UNCHANGED <<dapVars, sessVars, dcWasConnected, decVars, restVars>>

\* dap_client.py:153-168: the frame is built and socket.send(content) is
\* called, outside any lock.  send writes the first n bytes of content, for
\* some n >= 1, and returns n; the value returned is not looked at.  What
\* _send_request does after the send is not part of this view of it.
WrSend(t) ==
    /\ wpc[t] = "send"
    /\ LET content == DAPContent(wseq[t], "threads", <<>>)
       IN  \E n \in 1..Len(content) :
               sockOut' = Append(sockOut, [seq |-> wseq[t], content |-> content,
                                           n |-> n])
    /\ wpc' = [wpc EXCEPT ![t] = "idle"]
    /\ UNCHANGED <<wrSeqNo, wseq, encIn, encOut>>
    /\ UNCHANGED <<dapVars, sessVars, dcWasConnected, decVars, restVars>>

\* -------------------------------------- DAPClient, the event callbacks
\* The receive loop passes at most MaxEvents event frames to _handle_message
\* and on_event is called at most MaxRegistrations times in a run.
MaxEvents == 2
MaxRegistrations == 3
\* The event names, the callbacks on_event is given, and the "body" of an
\* event frame ("absent": the frame has no such key).
CallbackEvents == {"stopped", "exited"}
Callbacks == {"f", "g"}
EventBodies == {"absent", "b1"}
NoEvent == [event |-> "", body |-> "absent"]

\* dap_client.py:24: self.event_callbacks = {}.  The loop is not part of the run.
EvIdle ==
    /\ event_callbacks = [e \in CallbackEvents |-> "none"]
    /\ registrations = <<>>
    /\ invoked = <<>>
    /\ eventsRead = 0
    /\ emsg = NoEvent
    /\ epc = "off"
\* The loop of a connected client is waiting in recv.
EvInit ==
    /\ event_callbacks = [e \in CallbackEvents |-> "none"]
    /\ registrations = <<>>
    /\ invoked = <<>>
    /\ eventsRead = 0
    /\ emsg = NoEvent
    /\ epc = "loop"

\* ------------------------- DebugpyClient._read_response, the bytes it reads
\* headers has no "Content-Length" key.
NoLength == [known |-> FALSE, text |-> <<>>]

\* No request is waiting for its response.
RdIdle ==
    /\ rdSent = <<>>
    /\ rdPeer = "open"
    /\ rdStream = <<>>
    /\ rdpc = "off"
    /\ rdChar = ""
    /\ rdLine = <<>>
    /\ rdLength = NoLength
    /\ rdRet = ""

RestIdle == EvIdle /\ RdIdle

\* What the peer sends in answer to one request before it closes the
\* connection or falls silent: a frame, or the first bytes of one.
PeerAnswers ==
    UNION {{Take(FrameBytes(f), n) : n \in 0..Len(FrameBytes(f))} :
              f \in AdapterByteFrames}

\* _send_request has sent the request and calls _read_response (line 348),
\* which calls _read_line (line 361).
RdInit ==
    /\ rdSent \in PeerAnswers
    /\ rdPeer \in {"open", "closed"}
    /\ rdStream = rdSent
    /\ rdpc = "rl_recv"
    /\ rdChar = ""
    /\ rdLine = <<>>
    /\ rdLength = NoLength
    /\ rdRet = ""

\* debugpy_client.py:375-378: an exception inside _read_response is logged
\* and None is returned.
RdReturn(v) ==
    /\ rdpc' = "returned"
    /\ rdRet' = v

\* debugpy_client.py:384: char = sock.recv(1).decode('utf-8').  With a byte
\* to read, char is that byte, or decode raises on a byte that is no UTF-8
\* text by itself.  With none, recv returns b'' if the peer has closed the
\* connection, and raises socket.timeout (settimeout(30), line 58) if not.
ReadLineRecv ==
    /\ rdpc = "rl_recv"
    /\ IF rdStream # <<>>
         THEN /\ rdStream' = Drop(rdStream, 1)
              /\ IF Utf8Valid(<<rdStream[1]>>)
                   THEN /\ rdChar' = rdStream[1]
                        /\ rdpc' = "rl_test"
                        /\ UNCHANGED rdRet
                   ELSE /\ RdReturn("none")
                        /\ UNCHANGED rdChar
         ELSE /\ UNCHANGED rdStream
              /\ IF rdPeer = "closed"
                   THEN /\ rdChar' = ""
                        /\ rdpc' = "rl_test"
                        /\ UNCHANGED rdRet
                   ELSE /\ RdReturn("none")
                        /\ UNCHANGED rdChar
    /\ UNCHANGED <<rdSent, rdPeer, rdLine, rdLength>>
    /\ UNCHANGED <<dapVars, sessVars, dcWasConnected, decVars, wrVars, evVars>>

\* debugpy_client.py:385-389: '\n' ends the line, '\r' is skipped, any
\* other char, the empty one included, is added to the line and the loop
\* goes on.
ReadLineTest ==
    /\ rdpc = "rl_test"
    /\ IF rdChar = "LF"
         THEN rdpc' = "rr_line" /\ UNCHANGED rdLine
         ELSE /\ rdpc' = "rl_recv"
              /\ rdLine' = IF rdChar \in {"CR", ""} THEN rdLine
                           ELSE Append(rdLine, rdChar)
    /\ UNCHANGED <<rdSent, rdPeer, rdStream, rdChar, rdLength, rdRet>>
    /\ UNCHANGED <<dapVars, sessVars, dcWasConnected, decVars, wrVars, evVars>>

\* The name of the length header, without its colon.
LengthKey == Take(HeaderName, Len(HeaderName) - 1)

\* debugpy_client.py:362-367: an empty line ends the headers; a line with a
\* colon is split at its first colon into a key and a value.
ReadResponseLine ==
    /\ rdpc = "rr_line"
    /\ IF rdLine = <<>>
         THEN rdpc' = "rr_content" /\ UNCHANGED rdLength
         ELSE /\ rdpc' = "rl_recv"
              /\ LET colon == Find(rdLine, <<":">>)
                 IN  rdLength' =
                        IF colon # -1 /\ Strip(Take(rdLine, colon)) = LengthKey
                          THEN [known |-> TRUE,
                                text |-> Strip(Drop(rdLine, colon + 1))]
                          ELSE rdLength
    /\ rdLine' = <<>>
    /\ UNCHANGED <<rdSent, rdPeer, rdStream, rdChar, rdRet>>
    /\ UNCHANGED <<dapVars, sessVars, dcWasConnected, decVars, wrVars, evVars>>

\* json.loads(content) as _read_response returns it: the message, or the
\* exception that makes it return None.
ContentResult(bytes) ==
    IF ~Utf8Valid(bytes) THEN "none"
    ELSE IF JsonLoads(Utf8Text(bytes)) = "error" THEN "none"
    ELSE JsonLoads(Utf8Text(bytes))

\* debugpy_client.py:370-378: content_length = int(headers.get(
\* "Content-Length", 0)); if it is positive, one sock.recv(content_length),
\* which returns from one byte up to content_length bytes of those that
\* have arrived, is decoded and parsed.
ReadResponseContent ==
    /\ rdpc = "rr_content"
    /\ LET known == rdLength.known
           content_length ==
               IF known /\ IsInt(rdLength.text) THEN ParseInt(rdLength.text) ELSE 0
       IN  IF (known /\ ~IsInt(rdLength.text)) \/ content_length = 0
             THEN \* int() raises ValueError, or line 371 is false
                  /\ RdReturn("none")
                  /\ UNCHANGED rdStream
             ELSE IF rdStream = <<>>
             THEN \* recv raises socket.timeout, or returns b'' and
                  \* json.loads('') raises
                  /\ RdReturn("none")
                  /\ UNCHANGED rdStream
             ELSE \E n \in 1..content_length :
                      /\ n <= Len(rdStream)
                      /\ rdStream' = Drop(rdStream, n)
                      /\ RdReturn(ContentResult(Take(rdStream, n)))
    /\ UNCHANGED <<rdSent, rdPeer, rdChar, rdLine, rdLength>>
    /\ UNCHANGED <<dapVars, sessVars, dcWasConnected, decVars, wrVars, evVars>>

\* The first callback registered for a name is kept.
RegisteredFirst(cbs, name, callback) ==
    IF cbs[name] = "none" THEN [cbs EXCEPT ![name] = callback] ELSE cbs

\* dap_client.py:253: self.event_callbacks[event_name] = callback.
Registered(cbs, name, callback) == [cbs EXCEPT ![name] = callback]

\* dap_client.py:251-253: on_event(event_name, callback), called by a thread
\* of the application at any time.
OnEvent(name, callback) ==
    /\ Len(registrations) < MaxRegistrations
    /\ event_callbacks' = Registered(event_callbacks, name, callback)
    /\ registrations' = Append(registrations, <<name, callback>>)
    /\ UNCHANGED <<invoked, eventsRead, emsg, epc>>
    /\ UNCHANGED <<dapVars, sessVars, dcWasConnected, decVars, wrVars, rdVars>>

\* dap_client.py:216-218, 232, 241-243: the loop has decoded an event frame
\* and _handle_message takes its name.
EvRecv(e, b) ==
    /\ epc = "loop"
    /\ eventsRead < MaxEvents
    /\ eventsRead' = eventsRead + 1
    /\ emsg' = [event |-> e, body |-> b]
    /\ epc' = "check"
    /\ UNCHANGED <<event_callbacks, registrations, invoked>>
    /\ UNCHANGED <<dapVars, sessVars, dcWasConnected, decVars, wrVars, rdVars>>

\* dap_client.py:244: `if event in self.event_callbacks`; lines 247-249 only
\* log.
EvCheck ==
    /\ epc = "check"
    /\ epc' = IF event_callbacks[emsg.event] # "none" THEN "call" ELSE "loop"
    /\ emsg' = IF event_callbacks[emsg.event] # "none" THEN emsg ELSE NoEvent
    /\ UNCHANGED <<event_callbacks, registrations, invoked, eventsRead>>
    /\ UNCHANGED <<dapVars, sessVars, dcWasConnected, decVars, wrVars, rdVars>>

\* dap_client.py:245: the callback stored for the name is looked up and
\* called with message.get("body", {}).  raises: the callback raises; the
\* exception leaves _handle_message and ends the loop at lines 225-228.
EvCall(raises) ==
    /\ epc = "call"
    /\ invoked' = Append(invoked,
                         [frame |-> eventsRead,
                          callback |-> event_callbacks[emsg.event],
                          arg |-> IF emsg.body = "absent" THEN "{}" ELSE emsg.body])
    /\ epc' = IF raises THEN "ended" ELSE "loop"
    /\ emsg' = NoEvent
    /\ UNCHANGED <<event_callbacks, registrations, eventsRead>>
    /\ UNCHANGED <<dapVars, sessVars, dcWasConnected, decVars, wrVars, rdVars>>

\* ------------------------------------------------------- specifications
Init == DAPInit /\ SessInit /\ DecIdle /\ EncIdle /\ WritersIdle /\ RestIdle

\* The DAPClient: the threads in connect() and _send_request(), and the
\* receive loop.
Next ==
    \/ \E t \in Threads, c \in Commands : SendRequestEnter(t, c)
    \/ \E t \in Threads : AllocSeq(t)
    \/ \E t \in Threads : RegisterWaiter(t)
    \/ \E t \in Threads : SendFrame(t)
    \/ \E t \in Threads : SendRaises(t)
    \/ \E t \in Threads : WaitWoken(t)
    \/ \E t \in Threads : WaitTimeout(t)
    \/ \E t \in Threads : PopResponse(t)
    \/ \E t \in Threads : RemoveWaiter(t)
    \/ \E t \in Callers : CallerReturn(t)
    \/ \E g \in SockIds : RxLoop(g)
    \/ \E g \in SockIds : RxRecvFrame(g)
    \/ \E g \in SockIds : RxRecvEof(g)
    \/ \E g \in SockIds : RxRecvError(g)
    \/ \E g \in SockIds : RxHandle(g)
    \/ \E g \in SockIds : RxStore(g)
    \/ \E g \in SockIds : RxSet(g)
    \/ \E g \in FirstSocket : ConnectSocket(g)
    \/ \E g \in FirstSocket : ConnectSocketFails(g)
    \/ ConnectFlag
    \/ ConnectThread
    \/ ConnectAfterInit
    \/ ConnectAfterConfig
    \/ ConnectReturn

\* The DebugpyClient: its calls are synchronous, one at a time.
SessNext ==
    \/ \E i \in SessionIds, h \in Hosts, p \in Ports : CreateSession(i, h, p)
    \/ \E i \in AnyId, connectOk \in BOOLEAN, sendOk \in BOOLEAN :
           ConnectSession(i, connectOk, sendOk)
    \/ \E i \in AnyId : DisconnectSession(i)
    \/ \E i \in AnyId : DisconnectSessionFails(i)

SpecSession == Init /\ [][SessNext]_vars

\* The DebugpyClient with its breakpoint calls, on one session.
BpNext ==
    \/ \E i \in BpSessionIds, h \in Hosts : CreateSession(i, h, DefaultPort)
    \/ \E i \in BpSessionIds, connectOk \in BOOLEAN, sendOk \in BOOLEAN :
           ConnectSession(i, connectOk, sendOk)
    \/ \E i \in BpSessionIds : DisconnectSession(i)
    \/ \E i \in BpSessionIds : DisconnectSessionFails(i)
    \/ \E i \in BpSessionIds, f \in Files, l \in Lines, sendOk \in BOOLEAN :
           SetBreakpoint(i, f, l, sendOk)
    \/ \E i \in BpSessionIds, n \in BreakpointIds, sendOk \in BOOLEAN :
           ClearBreakpoint(i, n, sendOk)

SpecBreakpoints == Init /\ [][BpNext]_vars

\* The DebugpyClient with every operation, on one session.
CallsNext ==
    \/ \E i \in BpSessionIds, h \in Hosts : CreateSession(i, h, DefaultPort)
    \/ \E i \in BpSessionIds, connectOk \in BOOLEAN, sendOk \in BOOLEAN :
           ConnectSession(i, connectOk, sendOk)
    \/ \E i \in BpSessionIds : DisconnectSession(i)
    \/ \E i \in BpSessionIds : DisconnectSessionFails(i)
    \/ \E i \in BpSessionIds : ListBreakpointsCall(i)
    \/ \E i \in BpSessionIds, f \in Files, l \in Lines, sendOk \in BOOLEAN :
           SetBreakpointCall(i, f, l, sendOk)
    \/ \E i \in BpSessionIds, n \in BreakpointIds, sendOk \in BOOLEAN :
           ClearBreakpointCall(i, n, sendOk)
    \/ \E i \in BpSessionIds, sendOk \in BOOLEAN : ContinueExecution(i, sendOk)
    \/ \E i \in BpSessionIds, sendOk \in BOOLEAN : StepOver(i, sendOk)
    \/ \E i \in BpSessionIds, sendOk \in BOOLEAN : StepInto(i, sendOk)
    \/ \E i \in BpSessionIds, sendOk \in BOOLEAN : StepOut(i, sendOk)
    \/ \E i \in BpSessionIds, sendOk \in BOOLEAN : GetStackTrace(i, sendOk)
    \/ \E i \in BpSessionIds, sendOk \in BOOLEAN : GetVariables(i, sendOk)
    \/ \E i \in BpSessionIds, sendOk \in BOOLEAN : EvaluateExpression(i, sendOk)

SpecCalls == Init /\ [][CallsNext]_vars

\* evaluate_expression over the life of a session: the session is created,
\* connected and disconnected, and expressions are evaluated at any point.
EvaluateNext ==
    \/ \E i \in BpSessionIds, h \in Hosts : CreateSession(i, h, DefaultPort)
    \/ \E i \in BpSessionIds, connectOk \in BOOLEAN, sendOk \in BOOLEAN :
           ConnectSession(i, connectOk, sendOk)
    \/ \E i \in BpSessionIds : DisconnectSession(i)
    \/ \E i \in BpSessionIds : DisconnectSessionFails(i)
    \/ \E i \in BpSessionIds, sendOk \in BOOLEAN : EvaluateExpression(i, sendOk)

SpecEvaluate == Init /\ [][EvaluateNext]_vars

\* Two sessions of one DebugpyClient.  Every operation is called on s1;
\* s2 is created, connected, disconnected and given breakpoints beside it.
IsolationNext ==
    \/ \E i \in SessionIds, h \in Hosts : CreateSession(i, h, DefaultPort)
    \/ \E i \in SessionIds, connectOk \in BOOLEAN, sendOk \in BOOLEAN :
           ConnectSession(i, connectOk, sendOk)
    \/ \E i \in SessionIds : DisconnectSession(i)
    \/ \E i \in SessionIds : DisconnectSessionFails(i)
    \/ \E i \in SessionIds, f \in Files, l \in Lines, sendOk \in BOOLEAN :
           SetBreakpointCall(i, f, l, sendOk)
    \/ \E i \in BpSessionIds : ListBreakpointsCall(i)
    \/ \E i \in BpSessionIds, n \in BreakpointIds, sendOk \in BOOLEAN :
           ClearBreakpointCall(i, n, sendOk)
    \/ \E i \in BpSessionIds, sendOk \in BOOLEAN : ContinueExecution(i, sendOk)
    \/ \E i \in BpSessionIds, sendOk \in BOOLEAN : StepOver(i, sendOk)
    \/ \E i \in BpSessionIds, sendOk \in BOOLEAN : StepInto(i, sendOk)
    \/ \E i \in BpSessionIds, sendOk \in BOOLEAN : StepOut(i, sendOk)
    \/ \E i \in BpSessionIds, sendOk \in BOOLEAN : GetStackTrace(i, sendOk)
    \/ \E i \in BpSessionIds, sendOk \in BOOLEAN : GetVariables(i, sendOk)
    \/ \E i \in BpSessionIds, sendOk \in BOOLEAN : EvaluateExpression(i, sendOk)

SpecIsolation == Init /\ [][IsolationNext]_vars

Spec == Init /\ [][Next]_vars

\* The DAPClient used from one thread: connect(), then disconnect(), with the
\* receive loop running beside them.
DiscNext ==
    \/ \E c \in Commands : SendRequestEnter(Main, c)
    \/ AllocSeq(Main)
    \/ RegisterWaiter(Main)
    \/ SendFrame(Main)
    \/ SendRaises(Main)
    \/ WaitWoken(Main)
    \/ WaitTimeout(Main)
    \/ PopResponse(Main)
    \/ RemoveWaiter(Main)
    \/ \E g \in SockIds : RxLoop(g)
    \/ \E g \in SockIds : RxRecvFrame(g)
    \/ \E g \in SockIds : RxRecvEof(g)
    \/ \E g \in SockIds : RxRecvError(g)
    \/ \E g \in SockIds : RxHandle(g)
    \/ \E g \in SockIds : RxStore(g)
    \/ \E g \in SockIds : RxSet(g)
    \/ \E g \in FirstSocket : ConnectSocket(g)
    \/ \E g \in FirstSocket : ConnectSocketFails(g)
    \/ ConnectFlag
    \/ ConnectThread
    \/ ConnectAfterInit
    \/ ConnectAfterConfig
    \/ ConnectReturn
    \/ DisconnectFlag
    \/ DisconnectSocket
    \/ DisconnectClose
    \/ DisconnectJoin
    \/ DisconnectReturn

SpecDisconnect == Init /\ [][DiscNext]_vars

\* The DAPClient used from one thread that calls connect() and disconnect()
\* in any order, any number of times, each connect() starting a receive
\* loop.
ReconnectNext ==
    \/ \E c \in Commands : SendRequestEnter(Main, c)
    \/ AllocSeq(Main)
    \/ RegisterWaiter(Main)
    \/ SendFrame(Main)
    \/ SendRaises(Main)
    \/ WaitWoken(Main)
    \/ WaitTimeout(Main)
    \/ PopResponse(Main)
    \/ RemoveWaiter(Main)
    \/ \E g \in SockIds : RxLoop(g)
    \/ \E g \in SockIds : RxRecvFrame(g)
    \/ \E g \in SockIds : RxRecvEof(g)
    \/ \E g \in SockIds : RxRecvError(g)
    \/ \E g \in SockIds : RxHandle(g)
    \/ \E g \in SockIds : RxStore(g)
    \/ \E g \in SockIds : RxSet(g)
    \/ \E g \in SockIds : ConnectSocket(g)
    \/ \E g \in SockIds : ConnectSocketFails(g)
    \/ ConnectFlag
    \/ ConnectThread
    \/ ConnectAfterInit
    \/ ConnectAfterConfig
    \/ ConnectReturn
    \/ DisconnectFlag
    \/ DisconnectSocket
    \/ DisconnectClose
    \/ DisconnectJoin
    \/ DisconnectReturn

SpecReconnect == Init /\ [][ReconnectNext]_vars

\* The receive loop of a connected DAPClient reading the bytes of the
\* adapter's frames, in reads of any sizes.
InitDecode == DAPInit /\ SessInit /\ DecInit /\ EncIdle /\ WritersIdle /\ RestIdle

DecNext ==
    \/ DecRecv
    \/ DecEof
    \/ DecScan

SpecDecode == InitDecode /\ [][DecNext]_vars

\* One request of either client, serialized into its frame.
InitEncode == DAPInit /\ SessInit /\ DecIdle /\ EncInit /\ WritersIdle /\ RestIdle

EncNext ==
    \/ DAPClientEncode
    \/ DebugpyClientEncode

SpecEncode == InitEncode /\ [][EncNext]_vars

\* The callers of a connected DAPClient writing their requests.
WriteNext ==
    \/ \E t \in Writers : WrAlloc(t)
    \/ \E t \in Writers : WrSend(t)

InitWrite == DAPInit /\ SessInit /\ DecIdle /\ EncIdle /\ WritersInit /\ RestIdle

SpecWrite == InitWrite /\ [][WriteNext]_vars

\* The receive loop of a connected DAPClient dispatching event frames while
\* the application registers callbacks.
InitEvents ==
    DAPInit /\ SessInit /\ DecIdle /\ EncIdle /\ WritersIdle /\ EvInit /\ RdIdle

EventsNext ==
    \/ \E e \in CallbackEvents, c \in Callbacks : OnEvent(e, c)
    \/ \E e \in CallbackEvents, b \in EventBodies : EvRecv(e, b)
    \/ EvCheck
    \/ \E raises \in BOOLEAN : EvCall(raises)

SpecEvents == InitEvents /\ [][EventsNext]_vars

\* One _read_response call of the DebugpyClient reading the peer's answer
\* byte by byte; the calling thread keeps running.
InitRead ==
    DAPInit /\ SessInit /\ DecIdle /\ EncIdle /\ WritersIdle /\ EvIdle /\ RdInit

ReadNext ==
    \/ ReadLineRecv
    \/ ReadLineTest
    \/ ReadResponseLine
    \/ ReadResponseContent

SpecRead == InitRead /\ [][ReadNext]_vars /\ WF_vars(ReadNext)

\* ================================================================ claims
\* The threads inside _send_request that hold a sequence number.
InFlight == {t \in Threads : seq[t] # 0}
\* The threads whose _send_request call has produced its return value.
Returning == {t \in Threads : pc[t] \in {"sr_finally", "sr_ret"}}
Running == {"loop", "recv", "handle", "store", "set"}
ConfigFrames == {f \in wire : f[3] = "configurationDone"}

\* C1: every _send_request call that returns a response returns a response
\* whose request_seq is the seq of that call, and it is the seq of no other
\* call in progress, whatever the order in which the responses arrive.
C1_ResponseMatchesOwnSeq ==
    \A t \in Returning :
        ret[t] # None =>
            /\ ret[t].type = "response"
            /\ ret[t].request_seq = seq[t]
            /\ \A u \in InFlight \ {t} : ret[t].request_seq # seq[u]

\* Two calls are in progress at once, and both have received a response.
C1_Witness ==
    \E t, u \in Threads :
        /\ t # u
        /\ pc[t] = "sr_finally" /\ ret[t] # None
        /\ pc[u] = "sr_finally" /\ ret[u] # None
        /\ seq[t] < seq[u]

\* C2: a call whose wait expired returns None and has removed its waiter, and
\* no response for its seq is left stored: a response that arrives after the
\* wait expired leaves pending_requests and responses as they were.
C2_TimedOutCallLeavesNothing ==
    \A t \in Threads :
        (pc[t] = "sr_ret" /\ outcome[t] = "timeout") =>
            /\ ret[t] = None
            /\ seq[t] \notin pending_requests
            /\ responses[seq[t]] = None

\* C3: every sequence number with an entry in responses has an entry in
\* pending_requests.
C3_ResponseHasWaiter ==
    \A s \in Seqs : responses[s] # None => s \in pending_requests

\* C4: a waiter is resolved once: the response stored for a waiting call is
\* the one the call returns; a later response with the same request_seq never
\* replaces it.
C4_StoredResponseNotReplaced ==
    [][\A t \in Threads :
          (/\ pc[t] \in {"sr_wait", "sr_pop"}
           /\ responses[seq[t]] # None
           /\ responses'[seq[t]] # None) =>
              responses'[seq[t]] = responses[seq[t]]]_vars

\* C5: sequence numbers start at 1, each request takes the current value of
\* the counter and raises it by exactly 1, and no two requests of the
\* connection, in progress or written, carry the same seq.
C5_SeqsDistinct ==
    /\ sequence_number >= 1
    /\ \A t \in InFlight : seq[t] >= 1 /\ seq[t] < sequence_number
    /\ \A t, u \in InFlight : t # u => seq[t] # seq[u]
    /\ \A f \in wire : f[2] >= 1 /\ f[2] < sequence_number
    /\ \A f, h \in wire : f[2] = h[2] => f = h
    /\ \A t \in Threads :
           pc[t] \in {"sr_register", "sr_send"} =>
               \A f \in wire : f[2] # seq[t]
    /\ Cardinality(InFlight) + Cardinality(wire) > 0 => sequence_number > 1

C5_SequenceNumbers ==
    /\ sequence_number = 1
    /\ []C5_SeqsDistinct
    /\ [][\A t \in Threads :
             (seq'[t] # 0 /\ seq'[t] # seq[t]) =>
                 /\ seq'[t] = sequence_number
                 /\ sequence_number' = sequence_number + 1]_vars
    /\ [][sequence_number' \in {sequence_number, sequence_number + 1}]_vars

\* Two requests with different sequence numbers are on the wire, both calls
\* still waiting.
C5_Witness ==
    \E t, u \in Threads :
        /\ t # u
        /\ pc[t] = "sr_wait" /\ pc[u] = "sr_wait"
        /\ \E f, h \in wire : f[2] = seq[t] /\ h[2] = seq[u] /\ f # h

\* C6: a call that was waiting when the receive loop ended on a closed peer
\* or a read error is woken with a connection-lost outcome: it never ends on
\* its own request timeout.
C6_LostCallsNotLeftToTimeout ==
    \A t \in Threads : outcome[t] = "timeout" => seq[t] \notin lostPending

\* C7: once the receive loop of the connection has ended, is_connected is
\* false: a connected client with a started receive thread has it running.
C7_ConnectedImpliesLoopRunning ==
    (is_connected /\ receive_thread # 0) => rpc[receive_thread] \in Running

\* C8: a configurationDone request is on the wire only if connect() got an
\* initialize response with success true; when that response is missing or
\* not successful connect() returns False with no configurationDone written.
C8_ConfigOnlyAfterInitialize ==
    /\ ConfigFrames # {} =>
           /\ initResp.type = "response"
           /\ initResp.success = "true"
           /\ <<1, initResp.request_seq, "initialize">> \in wire
    /\ (pc[Main] = "cn_ret" /\ cmd[Main] = "initialize") =>
           /\ initResp = None \/ initResp.success # "true"
           /\ cret = "false"
    /\ (cmd[Main] = "configurationDone" \/ ConfigFrames # {}) =>
           initResp.success = "true"
    /\ (initResp = None \/ initResp.success # "true") => ConfigFrames = {}

\* The configurationDone request has been written.
C8_Witness == ConfigFrames # {} /\ pc[Main] = "sr_wait"

\* C9: connect_session returns True, with the session marked connected, only
\* when its initialize request got a response with success true; otherwise
\* it returns False.
C9_ConnectedOnlyAfterInitialize ==
    (lastCall.op = "connect_session" /\ Known(lastCall.sid)) =>
        /\ lastCall.ret = "true" <=>
               (lastCall.resp.type = "response" /\ lastCall.resp.success = "true")
        /\ lastCall.ret = "true" => sessions[lastCall.sid].is_connected
        /\ lastCall.ret = "false" => sessions[lastCall.sid].status # "connected"

\* C10: when connect() has returned a failure the client is disconnected:
\* is_connected is false and no receive loop is running.
C10_FailedConnectLeavesDisconnected ==
    (pc[Main] = "cn_ret" /\ cret \in {"false", "none"}) =>
        /\ ~is_connected
        /\ \A g \in SockIds : rpc[g] \notin Running

\* C11: disconnect() on a connected client writes a disconnect request to
\* the socket before it closes the socket; when disconnect() has returned the
\* socket is closed and is_connected is false, whether or not the request
\* could be sent.
C11_DisconnectWritesRequest ==
    pc[Main] = "dc_ret" =>
        /\ ~is_connected
        /\ socket = 0
        /\ \A g \in SockIds : sockState[g] \in {"unused", "failed", "closed"}
        /\ dcWasConnected =>
               \E f \in wire : f[3] = "disconnect" /\ sockState[f[1]] = "closed"

\* The texts of the frames fs, in order, and the number of frames of fs that
\* lie wholly within its first off bytes.
Texts(fs) == [i \in 1..Len(fs) |-> fs[i].text]
RECURSIVE CompleteFrames(_, _)
CompleteFrames(fs, off) ==
    IF fs = <<>> \/ off < Len(FrameBytes(fs[1])) THEN 0
    ELSE 1 + CompleteFrames(Drop(fs, 1), off - Len(FrameBytes(fs[1])))
BytesRead == Len(StreamOf(frames)) - Len(stream)
AllWellFormed == \A i \in 1..Len(frames) : frames[i].kind = "ok"

\* C12: for every sequence of well-formed frames and every partition of its
\* bytes into reads, the receive loop handles the messages of the frames in
\* order: whenever it is about to read it has handled exactly the frames
\* that have arrived whole, as it would had each arrived in one read, and at
\* the end of the stream it has handled them all.
C12_SplitReadsSameMessages ==
    AllWellFormed =>
        /\ dpc \in {"recv", "ended"} =>
               handled = Take(Texts(frames), CompleteFrames(frames, BytesRead))
        /\ dpc = "scan" =>
               \E k \in 0..CompleteFrames(frames, BytesRead) :
                   handled = Take(Texts(frames), k)
        /\ dpc = "ended" => dend = "eof" /\ handled = Texts(frames) /\ buffer = <<>>

\* Two well-formed frames have been handled after reads that ended inside a
\* header, inside a header terminator and inside a body.
C12_Witness ==
    /\ AllWellFormed
    /\ Len(frames) = 2
    /\ frames[1] # frames[2]
    /\ cuts = {"header", "terminator", "body"}
    /\ dpc = "ended"
    /\ handled = Texts(frames)

\* The texts of the well-formed frames among the first n frames of fs.
RECURSIVE WellFormedTexts(_, _)
WellFormedTexts(fs, n) ==
    IF n = 0 THEN <<>>
    ELSE WellFormedTexts(fs, n - 1)
             \o (IF fs[n].kind = "ok" THEN <<fs[n].text>> ELSE <<>>)
FrameKinds == {frames[i].kind : i \in 1..Len(frames)}
\* The loop has handled exactly the well-formed frames that have arrived
\* whole, and has not ended on an error.
HandledAllWellFormed ==
    /\ dend # "error"
    /\ dpc \in {"recv", "ended"} =>
           handled = WellFormedTexts(frames, CompleteFrames(frames, BytesRead))

\* C13: a frame whose body is not valid JSON is dropped and the loop goes
\* on: exactly the bytes of that frame are consumed and the well-formed
\* frames after it are handled, in order.
C13_BadJsonFrameDropped ==
    FrameKinds \subseteq {"ok", "badjson", "badutf8"} => HandledAllWellFormed

\* C14: a frame whose header declares no parseable length (no Content-Length
\* line, or one that is not an integer) is dropped and the loop goes on: the
\* well-formed frames after it are handled.
C14_BadHeaderFrameDropped ==
    FrameKinds \subseteq {"ok", "nolength", "badlength"} => HandledAllWellFormed

\* The header block and the body of the frame in encOut.
EncHeader == Take(encOut, Find(encOut, Terminator))
EncBody == Drop(encOut, Find(encOut, Terminator) + 4)
EncDeclared == Drop(EncHeader, Len(HeaderName) + 1)

C16_FramesWrittenWhole ==
    \A i \in 1..Len(sockOut) : sockOut[i].n = Len(sockOut[i].content)

\* The sockets opened for session i that are open.
OpenSocketsOf(i) ==
    {k \in ClientSockIds : clientSocketOwner[k] = i /\ clientSockets[k] = "open"}

\* C17: create_session returns an identifier no existing session has and
\* adds a record with the given host and port that is not connected, has no
\* connection and an empty breakpoint list; it opens no socket, writes
\* nothing and leaves every existing session as it was; get_session on the
\* returned id returns the record and list_sessions contains it.
C17_CreateSessionAddsDisconnected ==
    [][(lastCall'.op = "create_session" /\ lastCall' # lastCall) =>
          \E i \in SessionIds :
              /\ i = lastCall'.ret
              /\ ~Known(i)
              /\ sessions'[i] = [exists |-> TRUE, session_id |-> i,
                                 host |-> lastCall'.host, port |-> lastCall'.port,
                                 is_connected |-> FALSE, status |-> "created"]
              /\ connections'[i] = 0
              /\ breakpoints'[i] = <<>>
              /\ OpenSocketsOf(i)' = {}
              /\ UNCHANGED <<clientSockets, clientSocketOwner, clientWire,
                             client_sequence_number>>
              /\ \A j \in SessionIds \ {i} :
                     /\ sessions'[j] = sessions[j]
                     /\ connections'[j] = connections[j]
                     /\ breakpoints'[j] = breakpoints[j]
              /\ GetSession(i)' = sessions'[i]
              /\ sessions'[i] \in ListSessions'
              /\ ListBreakpoints(i)' = <<>>]_vars

\* A session has been created beside a connected one.
C17_Witness ==
    /\ lastCall.op = "create_session"
    /\ \E j \in SessionIds \ {lastCall.sid} :
           sessions[j].is_connected /\ connections[j] # 0
    /\ sessions[lastCall.sid].port # DefaultPort

\* C18: a session owns at most one open socket at any time: while a session
\* holds an open connection, connect_session on it opens no second socket
\* and does not replace the stored connection.
C18_OneOpenSocketPerSession ==
    /\ [](\A i \in SessionIds : Cardinality(OpenSocketsOf(i)) <= 1)
    /\ [][\A i \in SessionIds :
             (connections[i] # 0 /\ clientSockets[connections[i]] = "open") =>
                 /\ connections'[i] \in {connections[i], 0}
                 /\ \A k \in ClientSockIds :
                        clientSocketOwner'[k] = i => clientSocketOwner[k] = i]_vars

\* C19: what _send_request returns for a request is a response whose
\* request_seq is the seq of that request, never an event or the response to
\* an earlier request.
C19_ReturnedResponseMatchesSeq ==
    lastCall.resp # None =>
        /\ lastCall.resp.type = "response"
        /\ lastCall.resp.request_seq = lastCall.seq

\* C20: within a session no two listed breakpoints share a breakpoint_id,
\* and every id set_breakpoint assigns is greater than every id it assigned
\* before in that session.
C20_BreakpointIdsUniqueIncreasing ==
    \A i \in SessionIds :
        /\ \A k, j \in 1..Len(ListBreakpoints(i)) :
               k # j => ListBreakpoints(i)[k].breakpoint_id
                            # ListBreakpoints(i)[j].breakpoint_id
        /\ \A k, j \in 1..Len(issued[i]) : k < j => issued[i][k] < issued[i][j]

\* The lines of the breakpoints of file f in the list bs, in order.
LinesOf(bs, f) ==
    LET onFile == SelectSeq(bs, LAMBDA b : b.file_path = f)
    IN  [k \in 1..Len(onFile) |-> onFile[k].line_number]

\* C21: the setBreakpoints request clear_breakpoint sends for a file lists
\* exactly the breakpoints of that file that remain recorded, so that
\* clearing one breakpoint among several of a file leaves the others active
\* in the adapter.
C21_ClearResendsRemaining ==
    (lastCall.op = "clear_breakpoint" /\ lastCall.ret = "true" /\ lastCall.seq # 0) =>
        lastCall.lines = LinesOf(ListBreakpoints(lastCall.sid), lastCall.path)

\* C22: after any sequence of set_breakpoint and clear_breakpoint calls on a
\* connected session, list_breakpoints returns exactly the breakpoints that
\* were set and not cleared, in the order they were set.  A breakpoint is
\* cleared by a clear_breakpoint call that returns True and was given its id.
C22_ListIsSetNotCleared ==
    \A i \in SessionIds :
        sessions[i].is_connected => ListBreakpoints(i) = setNotCleared[i]

\* The values an operation returns when it succeeds on an existing session:
\* True, a Breakpoint, or a list (list_breakpoints returns the session's
\* list, which is [] from create_session on, debugpy_client.py:42).
SuccessReturns(op) ==
    CASE op = "disconnect_session" -> {"true"}
      [] op = "clear_breakpoint" -> {"true"}
      [] op = "set_breakpoint" -> {"breakpoint"}
      [] op = "list_breakpoints" -> {"list"}
      [] OTHER -> {}
RegistryOps ==
    {"disconnect_session", "set_breakpoint", "clear_breakpoint", "list_breakpoints"}

\* C23: disconnect_session, set_breakpoint, clear_breakpoint and
\* list_breakpoints called with a session id that was never created return a
\* value that none of them returns on success for an existing session, write
\* nothing to any socket and leave the registry unchanged.
C23_UnknownSessionReported ==
    /\ []((lastCall.op \in RegistryOps /\ ~Known(lastCall.sid)) =>
             lastCall.ret \notin SuccessReturns(lastCall.op))
    /\ [][\A i \in AnyId :
             (lastCall'.op \in RegistryOps /\ lastCall'.sid = i /\ ~Known(i)) =>
                 UNCHANGED <<registry, clientWire, client_sequence_number>>]_vars

\* C24: clear_breakpoint on a known session that is not connected returns
\* False and leaves the session's breakpoint list as it was.
C24_ClearNeedsConnection ==
    [][\A i \in SessionIds :
         (/\ lastCall'.op = "clear_breakpoint"
          /\ lastCall'.sid = i
          /\ Known(i)
          /\ ~sessions[i].is_connected
          /\ ~HasConnection(i)) =>
             /\ lastCall'.ret = "false"
             /\ ListBreakpoints(i)' = ListBreakpoints(i)]_vars

\* C26: a session's breakpoint collection is invalidated on disconnect: from
\* a disconnect_session call that returned True until the session is
\* connected again, list_breakpoints returns no breakpoint for it.
C26_DisconnectInvalidatesBreakpoints ==
    \A i \in SessionIds :
        (Known(i) /\ sessions[i].status = "disconnected") =>
            ListBreakpoints(i) = <<>>

\* The operations that need a connection, and the value each returns when it
\* fails: None, an empty list, an ExpressionResult flagged as an error.
RequestOps ==
    {"set_breakpoint", "continue_execution", "step_over", "step_into",
     "step_out", "get_stack_trace", "get_variables", "evaluate_expression"}
ReturnedFailure(call) ==
    CASE call.op \in {"get_stack_trace", "get_variables"} ->
             call.ret = "list" /\ call.list = <<>>
      [] call.op = "evaluate_expression" ->
             call.ret = "result" /\ call.result.is_error
      [] OTHER -> call.ret = "none"

\* C25: set_breakpoint, continue_execution, step_over, step_into, step_out,
\* get_stack_trace, get_variables and evaluate_expression called on a known
\* session that has no connection return a failure value, write no bytes to
\* any socket, take no sequence number and leave every session record and
\* breakpoint list unchanged.
C25_NoConnectionNoRequest ==
    [][\A i \in SessionIds :
         (/\ lastCall'.op \in RequestOps
          /\ lastCall'.sid = i
          /\ Known(i)
          /\ connections[i] = 0) =>
             /\ ReturnedFailure(lastCall')
             /\ lastCall'.seq = 0
             /\ UNCHANGED <<clientWire, client_sequence_number, sessions,
                            breakpoints, connections, clientSockets>>]_vars

\* A session that was connected and disconnected has been asked to evaluate
\* an expression, after a request that was sent on its connection.
C25_Witness ==
    /\ lastCall.op = "evaluate_expression"
    /\ Known(lastCall.sid)
    /\ connections[lastCall.sid] = 0
    /\ sessions[lastCall.sid].status = "disconnected"
    /\ lastCall.result.is_error
    /\ \E w \in clientWire : w[3] = "evaluate"

\* C27: evaluate_expression returns an ExpressionResult whatever
\* _send_request returned: not flagged as an error and carrying the
\* response's result and type when the response has success true, flagged
\* with the response's message as error_message when it has success false,
\* and flagged when there is no response.
C27_EvaluateMapsResponse ==
    lastCall.op = "evaluate_expression" =>
        /\ lastCall.ret = "result"
        /\ (lastCall.resp # None /\ lastCall.resp.success = "true") =>
               /\ ~lastCall.result.is_error
               /\ lastCall.body.result # "absent" =>
                      lastCall.result.result = lastCall.body.result
               /\ lastCall.body.type # "absent" =>
                      lastCall.result.type = lastCall.body.type
        /\ (lastCall.resp # None /\ lastCall.resp.success = "false") =>
               /\ lastCall.result.is_error
               /\ lastCall.body.message # "absent" =>
                      lastCall.result.error_message = lastCall.body.message
        /\ lastCall.resp = None => lastCall.result.is_error

\* The adapter has answered an evaluate request with success false and a
\* message.
C27_Witness ==
    /\ lastCall.op = "evaluate_expression"
    /\ lastCall.resp.type = "response"
    /\ lastCall.resp.request_seq = lastCall.seq
    /\ lastCall.resp.success = "false"
    /\ lastCall.body.message = "NameError"
    /\ lastCall.result = ExpressionResult("", "error", TRUE, "NameError")

\* The callbacks registered for event name e so far, in order.
RegisteredFor(e) ==
    LET mine == SelectSeq(registrations, LAMBDA r : r[1] = e)
    IN  [k \in 1..Len(mine) |-> mine[k][2]]
\* The calls made for event frame number n.
CallsFor(n) == SelectSeq(invoked, LAMBDA c : c.frame = n)

\* C28: on_event keeps one callback per event name, the one registered
\* last; for an event frame the callback registered last for its name is
\* called once with the event's body and no callback registered earlier is
\* called; an event with no registered callback changes no client state.
C28_LastCallbackInvokedOnce ==
    /\ [](\A e \in CallbackEvents :
             event_callbacks[e] =
                 IF RegisteredFor(e) = <<>> THEN "none"
                 ELSE RegisteredFor(e)[Len(RegisteredFor(e))])
    /\ [](\A n \in 1..MaxEvents : Len(CallsFor(n)) <= 1)
    /\ [][(epc = "call" /\ epc' # "call") =>
             /\ Len(invoked') = Len(invoked) + 1
             /\ LET call == invoked'[Len(invoked')]
                    mine == RegisteredFor(emsg.event)
                IN  /\ call.frame = eventsRead
                    /\ mine # <<>>
                    /\ call.callback = mine[Len(mine)]
                    /\ emsg.body # "absent" => call.arg = emsg.body]_vars
    /\ [][(epc = "check" /\ epc' # "check" /\ RegisteredFor(emsg.event) = <<>>) =>
             /\ UNCHANGED <<event_callbacks, invoked, dapVars>>
             /\ epc' = "loop"]_vars

\* A callback registered second for a name has been called for a frame of
\* that name, and an event of the other name, with no callback, was read.
C28_Witness ==
    /\ \E e \in CallbackEvents :
           /\ Len(RegisteredFor(e)) = 2
           /\ RegisteredFor(e)[1] # RegisteredFor(e)[2]
           /\ Len(invoked) = 1
           /\ invoked[1].callback = RegisteredFor(e)[2]
           /\ invoked[1].arg = "b1"
    /\ eventsRead = 2
    /\ epc = "loop"

\* The seqs of the requests written on socket k.
SeqsOn(k) == {w[2] : w \in {x \in clientWire : x[1] = k}}

\* C29: on each connection opened by DebugpyClient the first request carries
\* seq 1 and later requests carry larger seqs, whatever was sent on the
\* connections of other sessions: the smallest seq written on a connection
\* is 1 and no seq is written on it twice.
C29_SeqStartsAtOnePerConnection ==
    \A k \in ClientSockIds :
        /\ SeqsOn(k) # {} => 1 \in SeqsOn(k)
        /\ Cardinality({x \in clientWire : x[1] = k}) = Cardinality(SeqsOn(k))

\* The peer closed the connection before a complete header had arrived.
ClosedInHeader == rdPeer = "closed" /\ Find(rdSent, Terminator) = -1

\* C30: when the peer closes the connection before a complete response
\* header has arrived, the request operation eventually returns: _read_line
\* does not keep looping on zero-length reads.
C30_ReadReturnsOnPeerClose ==
    [](ClosedInHeader => <>(rdpc = "returned"))

\* The peer has sent one whole frame whose body is a JSON text.
WholeFrames == {f \in AdapterByteFrames : f.kind \in {"ok", "nonobject"}}

\* C31: _read_response returns the decoded message of a frame that arrives
\* whole, however its bytes are divided among the reads of the socket: a
\* read that returns less than Content-Length bytes is followed by more
\* reads until the body is complete.
C31_ReadJoinsPartialBody ==
    \A f \in WholeFrames :
        (rdpc = "returned" /\ rdSent = FrameBytes(f)) => rdRet = JsonLoads(f.text)

\* C32: as long as no breakpoint of the session has been cleared, the
\* setBreakpoints request of a successful set_breakpoint call lists every
\* breakpoint recorded for the file, the new one included, so that the
\* adapter's list of the file, which the request replaces, is the session's
\* recorded list of the file.
C32_SetSendsWholeFile ==
    (/\ lastCall.op = "set_breakpoint"
     /\ lastCall.ret = "breakpoint"
     /\ Len(issued[lastCall.sid]) = Len(breakpoints[lastCall.sid])) =>
        lastCall.lines = LinesOf(breakpoints[lastCall.sid], lastCall.path)

\* C33: a clear_breakpoint call removes the breakpoint and returns True only
\* when its request was answered with success true; when the request got no
\* response or a response with another success value, the session's list is
\* unchanged and the call returns False.
C33_ClearNeedsSuccess ==
    [][(lastCall' # lastCall /\ lastCall'.op = "clear_breakpoint") =>
          \/ lastCall'.resp # None /\ lastCall'.resp.success = "true"
          \/ breakpoints' = breakpoints /\ lastCall'.ret = "false"]_vars

ReadersOf(k) == {g \in SockIds : rpc[g] = "recv" /\ rsock[g] = k}

\* C35: over any sequence of connect() and disconnect() calls at most one
\* receive loop reads from a socket at any time, and the loop started by one
\* connect() call never reads from the socket of a later connect() call.
C35_OneReaderPerSocket ==
    /\ \A k \in SockIds : Cardinality(ReadersOf(k)) <= 1
    /\ \A g \in SockIds : rpc[g] = "recv" => rsock[g] <= g

\* C36: a call made with the id of one session leaves every other session's
\* record, its connection, the socket of that connection and its breakpoint
\* list as they were, whether the call succeeds or fails.
C36_SessionsIsolated ==
    [][\A b \in SessionIds \ {lastCall'.sid} :
          /\ sessions'[b] = sessions[b]
          /\ connections'[b] = connections[b]
          /\ breakpoints'[b] = breakpoints[b]
          /\ connections[b] # 0 =>
                 clientSockets'[connections[b]] = clientSockets[connections[b]]]_vars

\* connect_session has failed on s1 while s2 is connected and has a
\* breakpoint.
C36_Witness ==
    /\ lastCall.sid = "s1"
    /\ lastCall.op = "connect_session"
    /\ lastCall.ret = "false"
    /\ sessions["s2"].is_connected
    /\ connections["s2"] # 0
    /\ clientSockets[connections["s2"]] = "open"
    /\ breakpoints["s2"] # <<>>

\* C37: when connect() has sent configurationDone after a successful
\* initialize, it reports success if the response has success true, and
\* also if success is absent, that is, if the response has no success field
\* or no response arrives; it reports failure if the response has success
\* false.
C37_ConfigAbsentIsSuccess ==
    (pc[Main] = "cn_ret" /\ cmd[Main] = "configurationDone") =>
        /\ (ret[Main] = None \/ ret[Main].success \in {"true", "absent"}) =>
               cret = "true"
        /\ (ret[Main] # None /\ ret[Main].success = "false") => cret = "false"

\* C38: when the callback of an event has been called, the receive loop goes
\* on to the next frame, whether the callback returned or raised; an
\* exception of a callback does not end the loop.
C38_LoopSurvivesCallback ==
    [][(epc = "call" /\ epc' # "call") => epc' = "loop"]_vars

\* C39: after every call, a session is marked is_connected exactly when
\* self.connections has an entry for its id, over any sequence of
\* create_session, connect_session and disconnect_session calls, with
\* connects, sends and closes that fail.
C39_ConnectedIffEntry ==
    \A i \in SessionIds :
        /\ sessions[i].is_connected <=> connections[i] # 0
        /\ connections[i] # 0 => sessions[i].exists

\* A connect_session call has failed on a session that is connected, while
\* another session exists and is not connected.
C39_Witness ==
    \E i \in SessionIds, j \in SessionIds :
        /\ i # j
        /\ lastCall.op = "connect_session"
        /\ lastCall.sid = i
        /\ lastCall.ret = "false"
        /\ sessions[i].is_connected
        /\ connections[i] # 0
        /\ sessions[j].exists
        /\ ~sessions[j].is_connected

\* C40: after every call, a session's status is "connected" exactly when its
\* is_connected flag is true, over any sequence of create_session,
\* connect_session and disconnect_session calls, repeated connect_session
\* calls on one session included.
C40_StatusConnectedIffFlag ==
    \A i \in SessionIds :
        sessions[i].exists =>
            (sessions[i].status = "connected" <=> sessions[i].is_connected)

====
